---- MODULE Spec2Model ----
(***************************************************************************)
(* share-api-mcp: the HTTP client (api_client.py), its records (models.py) *)
(* and the tool entry points (mcp_server.py).                              *)
(*                                                                         *)
(* Text that the code inspects or builds (file names, paths, messages) is  *)
(* a sequence of one-character strings, so that joining, splitting and     *)
(* searching are computed and not assumed.  Paths follow posixpath.        *)
(***************************************************************************)
EXTENDS Integers, Sequences, FiniteSets, TLC

(***************************************************************************)
(* Bounds of the model.                                                    *)
(***************************************************************************)
MaxAtts == 2

(***************************************************************************)
(* Text helpers (Python str operations used by the code).                  *)
(***************************************************************************)
StartsWith(s, p) == Len(s) >= Len(p) /\ SubSeq(s, 1, Len(p)) = p

Contains(s, p) ==
    \E k \in 0..(Len(s) - Len(p)) : SubSeq(s, k + 1, k + Len(p)) = p

RECURSIVE Split(_, _)
Split(s, c) ==
    IF \A i \in 1..Len(s) : s[i] # c
    THEN <<s>>
    ELSE LET k == CHOOSE i \in 1..Len(s) :
                      s[i] = c /\ \A j \in 1..(i - 1) : s[j] # c
         IN  <<SubSeq(s, 1, k - 1)>> \o Split(SubSeq(s, k + 1, Len(s)), c)

RECURSIVE JoinWith(_, _)
JoinWith(parts, sep) ==
    IF parts = <<>> THEN <<>>
    ELSE IF Len(parts) = 1 THEN parts[1]
    ELSE parts[1] \o sep \o JoinWith(Tail(parts), sep)

DigitChar(d) == <<"0", "1", "2", "3", "4", "5", "6", "7", "8", "9">>[d + 1]

\* str(n) for n >= 0
RECURSIVE IntToStr(_)
IntToStr(n) ==
    IF n < 10 THEN <<DigitChar(n)>>
    ELSE IntToStr(n \div 10) \o <<DigitChar(n % 10)>>

(***************************************************************************)
(* posixpath: join, normpath, abspath.                                     *)
(***************************************************************************)
Cwd == <<"/", "w">>

Slash == "/"

PathJoin(a, b) ==
    IF StartsWith(b, <<Slash>>) THEN b
    ELSE IF a = <<>> \/ a[Len(a)] = Slash THEN a \o b
    ELSE a \o <<Slash>> \o b

RECURSIVE NormComps(_, _, _)
NormComps(comps, acc, rooted) ==
    IF comps = <<>> THEN acc
    ELSE LET c == Head(comps)
             dotdot == <<".", ".">>
         IN  IF c = <<>> \/ c = <<".">>
             THEN NormComps(Tail(comps), acc, rooted)
             ELSE IF c # dotdot
                     \/ (~rooted /\ acc = <<>>)
                     \/ (acc # <<>> /\ acc[Len(acc)] = dotdot)
             THEN NormComps(Tail(comps), Append(acc, c), rooted)
             ELSE IF acc # <<>>
             THEN NormComps(Tail(comps), SubSeq(acc, 1, Len(acc) - 1), rooted)
             ELSE NormComps(Tail(comps), acc, rooted)

NormPath(p) ==
    IF p = <<>> THEN <<".">>
    ELSE LET slashes == IF ~StartsWith(p, <<Slash>>) THEN 0
                        ELSE IF StartsWith(p, <<Slash, Slash>>)
                                /\ ~StartsWith(p, <<Slash, Slash, Slash>>)
                        THEN 2 ELSE 1
             body == JoinWith(NormComps(Split(p, Slash), <<>>, slashes > 0),
                              <<Slash>>)
             out  == [i \in 1..slashes |-> Slash] \o body
         IN  IF out = <<>> THEN <<".">> ELSE out

AbsPath(p) ==
    IF StartsWith(p, <<Slash>>) THEN NormPath(p)
    ELSE NormPath(PathJoin(Cwd, p))

(***************************************************************************)
(* models.py: image detection.                                             *)
(***************************************************************************)
\* the letters str.lower() changes in a file name, and what it makes of them
UpperLetters ==
    <<"A", "B", "C", "D", "E", "F", "G", "H", "I", "J", "K", "L", "M",
      "N", "O", "P", "Q", "R", "S", "T", "U", "V", "W", "X", "Y", "Z">>

LowerLetters ==
    <<"a", "b", "c", "d", "e", "f", "g", "h", "i", "j", "k", "l", "m",
      "n", "o", "p", "q", "r", "s", "t", "u", "v", "w", "x", "y", "z">>

LowerChar(c) ==
    IF \E k \in 1..26 : UpperLetters[k] = c
    THEN LowerLetters[CHOOSE k \in 1..26 : UpperLetters[k] = c]
    ELSE c

Lower(s) == [i \in 1..Len(s) |-> LowerChar(s[i])]

\* str.rfind("."), 0-based, -1 when absent
RFindDot(s) ==
    IF \A i \in 1..Len(s) : s[i] # "." THEN -1
    ELSE (CHOOSE i \in 1..Len(s) :
              s[i] = "." /\ \A j \in (i + 1)..Len(s) : s[j] # ".") - 1

IMAGE_EXTENSIONS ==
    { <<".", "p", "n", "g">>, <<".", "j", "p", "g">>,
      <<".", "j", "p", "e", "g">>, <<".", "g", "i", "f">>,
      <<".", "b", "m", "p">>, <<".", "w", "e", "b", "p">>,
      <<".", "s", "v", "g">>, <<".", "t", "i", "f", "f">>,
      <<".", "i", "c", "o">> }

\* as is_image_file, were the extension compared as it is written
is_image_file_CaseSensitive(filename) ==
    LET dot == RFindDot(filename)
    IN  IF dot < 0 THEN FALSE
        ELSE SubSeq(filename, dot + 1, Len(filename)) \in IMAGE_EXTENSIONS

is_image_file(filename) ==
    LET dot == RFindDot(filename)
    IN  IF dot < 0 THEN FALSE
        ELSE Lower(SubSeq(filename, dot + 1, Len(filename))) \in IMAGE_EXTENSIONS


\* "\n".join(lines)
JoinLines(lines) == JoinWith(lines, <<"\n">>)

IsSpace(c) == c \in {" ", "\n", "\t"}

\* str.strip()
RECURSIVE LStrip(_)
LStrip(s) == IF s # <<>> /\ IsSpace(Head(s)) THEN LStrip(Tail(s)) ELSE s

RECURSIVE RStrip(_)
RStrip(s) ==
    IF s # <<>> /\ IsSpace(s[Len(s)]) THEN RStrip(SubSeq(s, 1, Len(s) - 1)) ELSE s

Strip(s) == RStrip(LStrip(s))

(***************************************************************************)
(* JSON values as the server sends them: tagged, so that null, a missing   *)
(* key and a value are told apart.  An object is a sequence of <<key,      *)
(* value>> pairs (Python dicts keep insertion order).                      *)
(***************************************************************************)
JNull == [t |-> "null"]
JStr(s) == [t |-> "str", v |-> s]
JInt(n) == [t |-> "int", v |-> n]
JList(xs) == [t |-> "list", v |-> xs]
JObj(pairs) == [t |-> "obj", v |-> pairs]

HasKey(obj, key) == \E i \in 1..Len(obj.v) : obj.v[i][1] = key

\* dict.get(key, default)
GetOr(obj, key, default) ==
    IF HasKey(obj, key)
    THEN obj.v[CHOOSE i \in 1..Len(obj.v) : obj.v[i][1] = key][2]
    ELSE default

\* dict.get(key)
Get(obj, key) == GetOr(obj, key, JNull)

Truthy(j) ==
    CASE j.t = "null" -> FALSE
      [] j.t = "int"  -> j.v # 0
      [] OTHER        -> j.v # <<>>

\* x or default
OrElse(j, default) == IF Truthy(j) THEN j ELSE default

\* str(x) of a JSON string or integer
StrOf(j) == IF j.t = "int" THEN IntToStr(j.v) ELSE j.v

\* int(x) of a JSON integer
IntOf(j) == j.v

\* dict(x) of a JSON object: the ordered <<key, value>> pairs
DictOf(j) == j.v

(***************************************************************************)
(* api_client.py: parsing.                                                 *)
(***************************************************************************)
parse_attachment(data) ==
    [ id        |-> IntOf(OrElse(Get(data, "id"), JInt(0))),
      type      |-> StrOf(OrElse(Get(data, "type"), JStr(<<>>))),
      body      |-> DictOf(OrElse(Get(data, "body"), JObj(<<>>))),
      filename  |-> StrOf(OrElse(Get(data, "filename"), JStr(<<>>))),
      file_size |-> IntOf(OrElse(Get(data, "file_size"), JInt(0))),
      file_url  |-> StrOf(OrElse(Get(data, "file_url"), JStr(<<>>))) ]

\* data.get("attachments", []) is iterated as it is: null is not iterable
parse_entry_raises(data) ==
    GetOr(data, "attachments", JList(<<>>)).t # "list"

parse_entry(data) ==
    LET raw_attachments == GetOr(data, "attachments", JList(<<>>)).v
    IN  [ id          |-> IntOf(OrElse(Get(data, "id"), JInt(0))),
          type        |-> StrOf(OrElse(Get(data, "type"), JStr(<<>>))),
          subject     |-> StrOf(OrElse(Get(data, "subject"), JStr(<<>>))),
          body        |-> DictOf(OrElse(Get(data, "body"), JObj(<<>>))),
          filename    |-> StrOf(OrElse(Get(data, "filename"), JStr(<<>>))),
          file_size   |-> IntOf(OrElse(Get(data, "file_size"), JInt(0))),
          file_url    |-> StrOf(OrElse(Get(data, "file_url"), JStr(<<>>))),
          attachments |-> [i \in 1..Len(raw_attachments) |->
                              parse_attachment(raw_attachments[i])] ]

(***************************************************************************)
(* models.py: EntryResult.generate_content_markdown.                       *)
(***************************************************************************)
RECURSIVE BodyParagraphs(_)
BodyParagraphs(body) ==
    IF body = <<>> THEN <<>>
    ELSE LET text == Strip(StrOf(Head(body)[2]))
         IN  (IF text # <<>> THEN <<text, <<>>>> ELSE <<>>)
             \o BodyParagraphs(Tail(body))

ImageRef(filename) ==
    <<"!", "[">> \o filename \o <<"]", "(">> \o filename \o <<")">>

TypeText == <<"t", "e", "x", "t">>

TypeFile == <<"f", "i", "l", "e">>

\* as AttachmentLines, were the body of every attachment that is not an
\* image rendered, whatever its type
RECURSIVE AttachmentLines_AnyBody(_)
AttachmentLines_AnyBody(atts) ==
    IF atts = <<>> THEN <<>>
    ELSE LET att == Head(atts)
         IN  (IF att.type = TypeFile /\ att.filename # <<>>
                 /\ is_image_file(att.filename)
              THEN <<ImageRef(att.filename), <<>>>>
              ELSE BodyParagraphs(att.body))
             \o AttachmentLines_AnyBody(Tail(atts))

RECURSIVE AttachmentLines(_)
AttachmentLines(atts) ==
    IF atts = <<>> THEN <<>>
    ELSE LET att == Head(atts)
         IN  (IF att.type = TypeText THEN BodyParagraphs(att.body)
              ELSE IF att.type = TypeFile /\ att.filename # <<>>
                      /\ is_image_file(att.filename)
              THEN <<ImageRef(att.filename), <<>>>>
              ELSE <<>>)
             \o AttachmentLines(Tail(atts))

\* as generate_content_markdown, were an image referred to only when a file
\* of its name was downloaded
generate_content_markdown_DownloadedOnly(res) ==
    LET Downloaded(filename) ==
            \E k \in 1..Len(res.downloaded_files) :
                res.downloaded_files[k].filename = filename
    IN  JoinLines(
            << <<"#", " ">> \o res.entry.subject, <<>> >>
            \o BodyParagraphs(res.entry.body)
            \o (IF res.entry.filename # <<>>
                   /\ is_image_file(res.entry.filename)
                   /\ Downloaded(res.entry.filename)
                THEN <<ImageRef(res.entry.filename), <<>>>> ELSE <<>>)
            \o AttachmentLines(
                   SelectSeq(res.entry.attachments,
                             LAMBDA att : att.type = TypeText
                                          \/ Downloaded(att.filename))))

\* as generate_content_markdown, were the attachments rendered last to first
generate_content_markdown_Reversed(res) ==
    JoinLines(
        << <<"#", " ">> \o res.entry.subject, <<>> >>
        \o BodyParagraphs(res.entry.body)
        \o (IF res.entry.filename # <<>> /\ is_image_file(res.entry.filename)
            THEN <<ImageRef(res.entry.filename), <<>>>> ELSE <<>>)
        \o AttachmentLines(
               [i \in 1..Len(res.entry.attachments) |->
                   res.entry.attachments[Len(res.entry.attachments) + 1 - i]]))

generate_content_markdown(res) ==
    JoinLines(
        << <<"#", " ">> \o res.entry.subject, <<>> >>
        \o BodyParagraphs(res.entry.body)
        \o (IF res.entry.filename # <<>> /\ is_image_file(res.entry.filename)
            THEN <<ImageRef(res.entry.filename), <<>>>> ELSE <<>>)
        \o AttachmentLines(res.entry.attachments))

(***************************************************************************)
(* api_client.py: ShareApiClient.__init__.                                 *)
(***************************************************************************)
\* as client_auth, were the user name alone enough
client_auth_UserOnly(auth_user, auth_password) ==
    IF auth_user # <<>>
    THEN [kind |-> "BasicAuth", username |-> auth_user,
          password |-> auth_password]
    ELSE [kind |-> "None"]

\* self._auth
client_auth(auth_user, auth_password) ==
    IF auth_user # <<>> /\ auth_password # <<>>
    THEN [kind |-> "BasicAuth", username |-> auth_user,
          password |-> auth_password]
    ELSE [kind |-> "None"]

(***************************************************************************)
(* api_client.py: URLs.                                                    *)
(***************************************************************************)
\* str.replace(old, new)
RECURSIVE Replace(_, _, _)
Replace(s, old, new) ==
    IF Len(s) < Len(old) THEN s
    ELSE IF SubSeq(s, 1, Len(old)) = old
    THEN new \o Replace(SubSeq(s, Len(old) + 1, Len(s)), old, new)
    ELSE <<Head(s)>> \o Replace(Tail(s), old, new)

\* as RStripSlash, were one slash stripped at most
RStripSlash_One(s) ==
    IF s # <<>> /\ s[Len(s)] = Slash THEN SubSeq(s, 1, Len(s) - 1) ELSE s

\* str.rstrip("/")
RECURSIVE RStripSlash(_)
RStripSlash(s) ==
    IF s # <<>> /\ s[Len(s)] = Slash
    THEN RStripSlash(SubSeq(s, 1, Len(s) - 1)) ELSE s

normalize_url(base_url) ==
    RStripSlash(Replace(base_url,
        <<":", "/", "/", "l", "o", "c", "a", "l", "h", "o", "s", "t">>,
        <<":", "/", "/", "1", "2", "7", ".", "0", ".", "0", ".", "1">>))

ApiPhp == <<"/", "a", "p", "i", ".", "p", "h", "p">>

EntryUrl(base_url, entry_id) ==
    normalize_url(base_url) \o ApiPhp
        \o <<"/", "e", "n", "t", "r", "i", "e", "s", "/">> \o IntToStr(entry_id)

FileUrl(base_url, attachment_id) ==
    normalize_url(base_url) \o ApiPhp
        \o <<"/", "f", "i", "l", "e", "s", "/">> \o IntToStr(attachment_id)

EntryFileUrl(base_url, entry_id) ==
    EntryUrl(base_url, entry_id) \o <<"/", "f", "i", "l", "e">>

Get_(url) == [method |-> "GET", url |-> url]

(***************************************************************************)
(* The environment of one call of ShareApiClient.fetch_entry_with_files:   *)
(* its arguments, what the server answers, and how each transfer ends.     *)
(***************************************************************************)
NoneArg == <<"None">>

\* Settings.download_dir, the default "./downloads" shortened
SettingsDownloadDir == <<".", "/", "d", "l">>

BaseUrlArg == <<"b", "/">>

EntryIdArg == 42

DownloadDirArgs == { NoneArg, <<"/", "d">> }

FnPng == <<"a", ".", "p", "n", "g">>

FnAbs == <<"/", "x">>

FnMd == <<"c", "o", "n", "t", "e", "n", "t", ".", "m", "d">>

UrlSet == <<"u">>

ContentKey == "content"

RawAttachment(id, type, filename, file_url, body) ==
    JObj(<< <<"id", JInt(id)>>, <<"type", JStr(type)>>, <<"body", JObj(body)>>,
            <<"filename", filename>>, <<"file_url", file_url>> >>)

\* the shapes of attachment a server response is drawn from
AttKinds ==
    { [type |-> TypeFile, filename |-> JStr(FnPng), file_url |-> JStr(UrlSet),
       body |-> <<>>],
      [type |-> TypeFile, filename |-> JStr(FnPng), file_url |-> JNull,
       body |-> <<>>],
      [type |-> TypeFile, filename |-> JNull, file_url |-> JStr(UrlSet),
       body |-> << <<ContentKey, JStr(<<"n">>)>> >>],
      [type |-> TypeFile, filename |-> JStr(<<>>), file_url |-> JNull,
       body |-> <<>>],
      [type |-> TypeText, filename |-> JNull, file_url |-> JNull,
       body |-> << <<ContentKey, JStr(<<" ", "c">>)>> >>] }

AttKindSeqs == UNION { [1..n -> AttKinds] : n \in 0..MaxAtts }

\* the entry-level file name and URL of a response
EntryFileKinds ==
    { [filename |-> JNull, file_url |-> JNull],
      [filename |-> JStr(FnPng), file_url |-> JStr(UrlSet)],
      [filename |-> JStr(FnPng), file_url |-> JNull],
      [filename |-> JStr(<<>>), file_url |-> JStr(UrlSet)],
      [filename |-> JStr(FnAbs), file_url |-> JStr(UrlSet)],
      [filename |-> JStr(FnMd), file_url |-> JStr(UrlSet)] }

\* the id the response carries: the one asked for, or another one
ResponseIds == { EntryIdArg, 1 }

RawEntry(id, fk, kinds) ==
    JObj(<< <<"id", JInt(id)>>, <<"type", JStr(TypeText)>>,
            <<"subject", JStr(<<"S">>)>>,
            <<"body", JObj(<< <<ContentKey, JStr(<<"h">>)>> >>)>>,
            <<"filename", fk.filename>>, <<"file_url", fk.file_url>>,
            <<"attachments",
              JList([i \in 1..Len(kinds) |->
                        RawAttachment(i, kinds[i].type, kinds[i].filename,
                                      kinds[i].file_url, kinds[i].body)])>> >>)

\* a body whose "attachments" is null
RawEntryNullAttachments ==
    JObj(<< <<"id", JInt(EntryIdArg)>>, <<"attachments", JNull>> >>)

\* what the GET of the entry can bring
EntryResponses ==
    { [kind |-> "ok", data |-> RawEntry(id, fk, kinds)] :
          id \in ResponseIds, fk \in EntryFileKinds, kinds \in AttKindSeqs }
    \cup { [kind |-> "ok", data |-> RawEntryNullAttachments] }
    \cup { [kind |-> k, data |-> JNull] :
               k \in {"transport_error", "status_error", "decode_error"} }

\* the body the server holds for a file, as the chunks iter_bytes() yields:
\* two chunks that name the endpoint (0 entry file, 1 attachment) and the id
ServedBody(endpoint, id) == << <<endpoint, id>>, <<id>> >>

\* how a transfer of that body ends: the whole body arrives and is written,
\* the request or its status check fails, the destination cannot be opened,
\* or the stream breaks after k chunks were written
Outcomes(body) ==
    { [kind |-> "ok", body |-> body, k |-> Len(body)],
      [kind |-> "http_error", body |-> body, k |-> 0],
      [kind |-> "open_error", body |-> body, k |-> 0] }
    \cup { [kind |-> "stream_error", body |-> body, k |-> k] :
               k \in 0..(Len(body) - 1) }

MsgOf(kind) ==
    CASE kind = "http_error"      -> <<"4", "0", "4">>
      [] kind = "open_error"      -> <<"E", "1", "3">>
      [] kind = "stream_error"    -> <<"E", "O", "F">>
      [] kind = "makedirs_error"  -> <<"E", "1", "7">>
      [] kind = "transport_error" -> <<"E", "1", "1", "1">>
      [] kind = "status_error"    -> <<"5", "0", "0">>
      [] kind = "decode_error"    -> <<"J", "S", "O", "N">>
      [] kind = "parse_error"     -> <<"T", "y", "p", "e">>
      [] OTHER                    -> <<>>

VARIABLES
    pc,            \* where fetch_entry_with_files stands
    args,          \* its arguments
    download_dir,  \* local download_dir (line 207)
    entry_dir,     \* local entry_dir (line 209)
    entry,         \* local entry
    idx,           \* position of the for loop over entry.attachments
    downloaded,    \* local list downloaded
    failed,        \* local list failed
    result,        \* what the call returned or raised
    requests,      \* the HTTP requests issued so far, in order
    dirs,          \* file system: the directories that exist
    files,         \* file system: normalised path -> bytes
    dir_ok,        \* environment: os.makedirs of the entry directory succeeds
    fetch_outcome, \* history: how the GET of the entry ended
    events,        \* history: one record per download decision, in order
    settings,      \* tool call: Settings.from_env()
    call,          \* tool call: the tool and its arguments
    client_calls,  \* tool call: the client methods invoked, in order
    output,        \* tool call: what the tool returned
    exc,           \* tool call: the exception raised inside the tool body
    fn_call,       \* function call: the function applied and its argument
    fn_value       \* function call: what it returned

fvars == <<pc, args, download_dir, entry_dir, entry, idx, downloaded, failed,
           result, requests, dirs, files, dir_ok, fetch_outcome, events>>

tvars == <<settings, call, client_calls, output, exc, fn_call, fn_value>>

vars == <<fvars, tvars>>

\* the local entry before line 211 assigns it
NoEntry ==
    [id |-> 0, type |-> <<>>, subject |-> <<>>, body |-> <<>>,
     filename |-> <<>>, file_size |-> 0, file_url |-> <<>>,
     attachments |-> <<>>]

NoResult == [kind |-> "none"]

NoFiles == [p \in {} |-> <<>>]

InitDirs == { <<Slash>>, Cwd }

NoSettings ==
    [base_url |-> <<>>, download_dir |-> SettingsDownloadDir,
     project_id |-> <<>>]

NoCall == [tool |-> "none"]

NoOutput == [kind |-> "none"]

NoExc == [type |-> "none", msg |-> <<>>]

NoFn == [fn |-> "none"]

Init ==
    /\ pc = "idle"
    /\ args = [base_url |-> <<>>, entry_id |-> 0, download_dir |-> NoneArg]
    /\ download_dir = <<>>
    /\ entry_dir = <<>>
    /\ entry = NoEntry
    /\ idx = 0
    /\ downloaded = <<>>
    /\ failed = <<>>
    /\ result = NoResult
    /\ requests = <<>>
    /\ dirs = InitDirs
    /\ files = NoFiles
    /\ dir_ok \in BOOLEAN
    /\ fetch_outcome = "none"
    /\ events = <<>>
    /\ settings = NoSettings
    /\ call = NoCall
    /\ client_calls = <<>>
    /\ output = NoOutput
    /\ exc = NoExc
    /\ fn_call = NoFn
    /\ fn_value = NoFn

(***************************************************************************)
(* File system effects.                                                    *)
(***************************************************************************)
\* os.makedirs(p, exist_ok=True) of an absolute normalised p: p and the
\* directories above it
Ancestors(p) ==
    { SubSeq(p, 1, i) : i \in { j \in 1..Len(p) :
                                  j = Len(p) \/ p[j + 1] = Slash } }
    \cup { <<Slash>> }

WriteFile(fs, path, content) ==
    [q \in DOMAIN fs \cup {NormPath(path)} |->
        IF q = NormPath(path) THEN content ELSE fs[q]]

RECURSIVE Flatten(_)
Flatten(chunks) ==
    IF chunks = <<>> THEN <<>> ELSE Head(chunks) \o Flatten(Tail(chunks))

\* file_size += len(chunk) over the chunks
RECURSIVE SumLen(_)
SumLen(chunks) ==
    IF chunks = <<>> THEN 0 ELSE Len(Head(chunks)) + SumLen(Tail(chunks))

NoValue == [attachment_id |-> 0]

\* stream_to_file with one retry of a request that failed
stream_to_file_Retry(url, id, filename, dir, out) ==
    IF ~dir_ok
    THEN [raised |-> TRUE, kind |-> "makedirs_error", reqs |-> <<>>,
          dirs |-> dirs, files |-> files, value |-> NoValue]
    ELSE LET file_path == PathJoin(dir, filename)
             made == dirs \cup Ancestors(dir)
             written == SubSeq(out.body, 1, out.k)
         IN  IF out.kind = "ok"
             THEN [raised |-> FALSE, kind |-> "ok", reqs |-> <<Get_(url)>>,
                   dirs |-> made,
                   files |-> WriteFile(files, file_path, Flatten(written)),
                   value |-> [attachment_id |-> id, filename |-> filename,
                              file_path |-> file_path,
                              file_size |-> SumLen(written)]]
             ELSE [raised |-> TRUE, kind |-> out.kind,
                   reqs |-> <<Get_(url), Get_(url)>>, dirs |-> made,
                   files |-> IF out.kind = "stream_error"
                             THEN WriteFile(files, file_path, Flatten(written))
                             ELSE files,
                   value |-> NoValue]

\* as stream_to_file, were the destination removed when the stream breaks
stream_to_file_RolledBack(url, id, filename, dir, out) ==
    IF ~dir_ok
    THEN [raised |-> TRUE, kind |-> "makedirs_error", reqs |-> <<>>,
          dirs |-> dirs, files |-> files, value |-> NoValue]
    ELSE LET file_path == PathJoin(dir, filename)
             made == dirs \cup Ancestors(dir)
             written == SubSeq(out.body, 1, out.k)
         IN  IF out.kind # "ok"
             THEN [raised |-> TRUE, kind |-> out.kind, reqs |-> <<Get_(url)>>,
                   dirs |-> made, files |-> files, value |-> NoValue]
             ELSE [raised |-> FALSE, kind |-> "ok", reqs |-> <<Get_(url)>>,
                   dirs |-> made,
                   files |-> WriteFile(files, file_path, Flatten(written)),
                   value |-> [attachment_id |-> id, filename |-> filename,
                              file_path |-> file_path,
                              file_size |-> SumLen(written)]]

(***************************************************************************)
(* download_file and download_entry_file share one body: makedirs, join,   *)
(* GET as a stream, status check, open "wb", write chunk by chunk.         *)
(* The outcome is what the call does to the world and what it returns.     *)
(***************************************************************************)
stream_to_file(url, id, filename, dir, out) ==
    IF ~dir_ok
    THEN [raised |-> TRUE, kind |-> "makedirs_error", reqs |-> <<>>,
          dirs |-> dirs, files |-> files, value |-> NoValue]
    ELSE LET file_path == PathJoin(dir, filename)
             made == dirs \cup Ancestors(dir)
             written == SubSeq(out.body, 1, out.k)
         IN  IF out.kind \in {"http_error", "open_error"}
             THEN [raised |-> TRUE, kind |-> out.kind, reqs |-> <<Get_(url)>>,
                   dirs |-> made, files |-> files, value |-> NoValue]
             ELSE IF out.kind = "stream_error"
             THEN [raised |-> TRUE, kind |-> out.kind, reqs |-> <<Get_(url)>>,
                   dirs |-> made,
                   files |-> WriteFile(files, file_path, Flatten(written)),
                   value |-> NoValue]
             ELSE [raised |-> FALSE, kind |-> "ok", reqs |-> <<Get_(url)>>,
                   dirs |-> made,
                   files |-> WriteFile(files, file_path, Flatten(written)),
                   value |-> [attachment_id |-> id, filename |-> filename,
                              file_path |-> file_path,
                              file_size |-> SumLen(written)]]

download_file(base_url, attachment_id, filename, dir, out) ==
    stream_to_file(FileUrl(base_url, attachment_id), attachment_id, filename,
                   dir, out)

download_entry_file(base_url, entry_id, filename, dir, out) ==
    stream_to_file(EntryFileUrl(base_url, entry_id), entry_id, filename,
                   dir, out)

FailedDownload(attachment_id, filename, error) ==
    [attachment_id |-> attachment_id, filename |-> filename, error |-> error]

NotAvailableMsg ==
    <<"F", "i", "l", "e", " ", "n", "o", "t", " ", "a", "v", "a", "i", "l",
      "a", "b", "l", "e", " ", "o", "n", " ", "s", "e", "r", "v", "e", "r">>

Event(src, pos, id, filename, kind) ==
    [src |-> src, pos |-> pos, id |-> id, filename |-> filename, kind |-> kind]

Raised(where, kind) ==
    [kind |-> "exception", where |-> where, msg |-> MsgOf(kind)]

(***************************************************************************)
(* fetch_entry_with_files, step by step.                                   *)
(***************************************************************************)
\* lines 205-209: the directories are computed, nothing is created
CallWith(dd) ==
    /\ args' = [base_url |-> BaseUrlArg, entry_id |-> EntryIdArg,
                download_dir |-> dd]
    /\ download_dir' = AbsPath(IF dd = NoneArg THEN SettingsDownloadDir ELSE dd)
    /\ entry_dir' = PathJoin(download_dir', IntToStr(EntryIdArg))
    /\ pc' = "fetch_entry"
    /\ UNCHANGED <<entry, idx, downloaded, failed, result, requests, dirs,
                   files, dir_ok, events, fetch_outcome>>
    /\ UNCHANGED tvars

\* fetch_entry: the outcome of GET, raise_for_status, json() and _parse_entry
fetch_entry_raises(resp) ==
    IF resp.kind # "ok" THEN TRUE ELSE parse_entry_raises(resp.data)

fetch_entry_error(resp) ==
    IF resp.kind # "ok" THEN resp.kind ELSE "parse_error"

\* line 211 when fetch_entry returns
FetchEntryOkWith(resp) ==
    /\ ~fetch_entry_raises(resp)
    /\ requests' = Append(requests, Get_(EntryUrl(args.base_url, args.entry_id)))
    /\ entry' = parse_entry(resp.data)
    /\ fetch_outcome' = "ok"
    /\ pc' = "entry_file"
    /\ UNCHANGED <<args, download_dir, entry_dir, idx, downloaded, failed,
                   result, dirs, files, dir_ok, events>>
    /\ UNCHANGED tvars

\* FetchEntryRaiseWith with the failure caught and an empty entry used
FetchEntryRaiseWith_Swallowed(resp) ==
    /\ fetch_entry_raises(resp)
    /\ requests' = Append(requests, Get_(EntryUrl(args.base_url, args.entry_id)))
    /\ entry' = parse_entry(JObj(<<>>))
    /\ fetch_outcome' = fetch_entry_error(resp)
    /\ pc' = "entry_file"
    /\ UNCHANGED <<args, download_dir, entry_dir, idx, downloaded, failed,
                   result, dirs, files, dir_ok, events>>
    /\ UNCHANGED tvars

\* line 211 when fetch_entry raises: nothing catches it
FetchEntryRaiseWith(resp) ==
    /\ fetch_entry_raises(resp)
    /\ requests' = Append(requests, Get_(EntryUrl(args.base_url, args.entry_id)))
    /\ result' = Raised("fetch_entry", fetch_entry_error(resp))
    /\ fetch_outcome' = fetch_entry_error(resp)
    /\ pc' = "raised"
    /\ UNCHANGED <<args, download_dir, entry_dir, entry, idx, downloaded,
                   failed, dirs, files, dir_ok, events>>
    /\ UNCHANGED tvars

\* HasEntryFile without the test of the file URL
HasEntryFile_NameOnly(e) == e.filename # <<>>

\* HasEntryFile without the test of the filename
HasEntryFile_UrlOnly(e) == e.file_url # <<>>

HasEntryFile(e) == e.file_url # <<>> /\ e.filename # <<>>

\* lines 217-236
EntryFileDownloadWith(out) ==
    /\ LET r == download_entry_file(args.base_url, entry.id, entry.filename,
                                    entry_dir, out)
       IN  /\ requests' = requests \o r.reqs
           /\ dirs' = r.dirs
           /\ files' = r.files
           /\ downloaded' = IF r.raised THEN downloaded
                            ELSE Append(downloaded, r.value)
           /\ failed' = IF r.raised
                        THEN Append(failed, FailedDownload(entry.id,
                                              entry.filename, MsgOf(r.kind)))
                        ELSE failed
           /\ events' = Append(events, Event("entry", 0, entry.id,
                                             entry.filename, r.kind))
    /\ idx' = 1
    /\ pc' = "attachments"
    /\ UNCHANGED <<args, download_dir, entry_dir, entry, result, dir_ok, fetch_outcome>>
    /\ UNCHANGED tvars

\* line 217 when the condition is false
EntryFileSkip ==
    /\ pc = "entry_file"
    /\ ~HasEntryFile(entry)
    /\ idx' = 1
    /\ pc' = "attachments"
    /\ UNCHANGED <<args, download_dir, entry_dir, entry, downloaded, failed,
                   result, requests, dirs, files, dir_ok, events, fetch_outcome>>
    /\ UNCHANGED tvars

InLoop == pc = "attachments" /\ idx <= Len(entry.attachments)

IsCandidate(att) == att.type = TypeFile /\ att.filename # <<>>

\* AttachmentSkip with a failure recorded for the attachment skipped
AttachmentSkip_Recorded ==
    /\ InLoop
    /\ ~IsCandidate(entry.attachments[idx])
    /\ failed' = Append(failed,
                        FailedDownload(entry.attachments[idx].id,
                                       entry.attachments[idx].filename,
                                       NotAvailableMsg))
    /\ idx' = idx + 1
    /\ UNCHANGED <<pc, args, download_dir, entry_dir, entry, downloaded,
                   result, requests, dirs, files, dir_ok, events,
                   fetch_outcome>>
    /\ UNCHANGED tvars

\* line 239 when the condition is false
AttachmentSkip ==
    /\ InLoop
    /\ ~IsCandidate(entry.attachments[idx])
    /\ idx' = idx + 1
    /\ UNCHANGED <<pc, args, download_dir, entry_dir, entry, downloaded, failed,
                   result, requests, dirs, files, dir_ok, events, fetch_outcome>>
    /\ UNCHANGED tvars

\* AttachmentNotAvailable with the record put at the head of the list
AttachmentNotAvailable_AtHead ==
    /\ InLoop
    /\ LET att == entry.attachments[idx]
       IN  /\ IsCandidate(att)
           /\ att.file_url = <<>>
           /\ failed' = <<FailedDownload(att.id, att.filename,
                                         NotAvailableMsg)>> \o failed
           /\ events' = Append(events, Event("att", idx, att.id, att.filename,
                                             "not_available"))
    /\ idx' = idx + 1
    /\ UNCHANGED <<pc, args, download_dir, entry_dir, entry, downloaded, result,
                   requests, dirs, files, dir_ok, fetch_outcome>>
    /\ UNCHANGED tvars

\* AttachmentNotAvailable with the attachment skipped without a record
AttachmentNotAvailable_Silent ==
    /\ InLoop
    /\ IsCandidate(entry.attachments[idx])
    /\ entry.attachments[idx].file_url = <<>>
    /\ idx' = idx + 1
    /\ UNCHANGED <<pc, args, download_dir, entry_dir, entry, downloaded, failed,
                   result, requests, dirs, files, dir_ok, events,
                   fetch_outcome>>
    /\ UNCHANGED tvars

\* lines 240-253
AttachmentNotAvailable ==
    /\ InLoop
    /\ LET att == entry.attachments[idx]
       IN  /\ IsCandidate(att)
           /\ att.file_url = <<>>
           /\ failed' = Append(failed, FailedDownload(att.id, att.filename,
                                                      NotAvailableMsg))
           /\ events' = Append(events, Event("att", idx, att.id, att.filename,
                                             "not_available"))
    /\ idx' = idx + 1
    /\ UNCHANGED <<pc, args, download_dir, entry_dir, entry, downloaded, result,
                   requests, dirs, files, dir_ok, fetch_outcome>>
    /\ UNCHANGED tvars

\* AttachmentDownloadWith without the try/except: the exception leaves
\* fetch_entry_with_files
AttachmentDownloadWith_Propagates(out) ==
    /\ InLoop
    /\ LET att == entry.attachments[idx]
           r == download_file(args.base_url, att.id, att.filename, entry_dir,
                              out)
       IN  /\ requests' = requests \o r.reqs
           /\ dirs' = r.dirs
           /\ files' = r.files
           /\ downloaded' = IF r.raised THEN downloaded
                            ELSE Append(downloaded, r.value)
           /\ events' = Append(events, Event("att", idx, att.id, att.filename,
                                             r.kind))
           /\ pc' = IF r.raised THEN "raised" ELSE pc
           /\ result' = IF r.raised THEN Raised("download_file", r.kind)
                        ELSE result
    /\ idx' = idx + 1
    /\ UNCHANGED <<args, download_dir, entry_dir, entry, failed, dir_ok,
                   fetch_outcome>>
    /\ UNCHANGED tvars

\* lines 254-272
AttachmentDownloadWith(out) ==
    /\ LET att == entry.attachments[idx]
           r == download_file(args.base_url, att.id, att.filename, entry_dir,
                              out)
       IN  /\ requests' = requests \o r.reqs
           /\ dirs' = r.dirs
           /\ files' = r.files
           /\ downloaded' = IF r.raised THEN downloaded
                            ELSE Append(downloaded, r.value)
           /\ failed' = IF r.raised
                        THEN Append(failed, FailedDownload(att.id, att.filename,
                                                           MsgOf(r.kind)))
                        ELSE failed
           /\ events' = Append(events, Event("att", idx, att.id, att.filename,
                                             r.kind))
    /\ idx' = idx + 1
    /\ UNCHANGED <<pc, args, download_dir, entry_dir, entry, result, dir_ok, fetch_outcome>>
    /\ UNCHANGED tvars

\* as LoopDone, were the loop left at any attachment
LoopDone_Early == pc = "attachments"

LoopDone == pc = "attachments" /\ idx > Len(entry.attachments)

ContentMdName == <<"c", "o", "n", "t", "e", "n", "t", ".", "m", "d">>

EntryResult(e, dl, fl) ==
    [entry |-> e, downloaded_files |-> dl, failed_downloads |-> fl,
     content_md_path |-> <<>>]

\* as WriteContentMd, were a file that is already there left as it is
WriteContentMd_KeepsFile ==
    /\ LoopDone
    /\ dir_ok
    /\ LET res == EntryResult(entry, downloaded, failed)
           content_md_path == PathJoin(entry_dir, ContentMdName)
       IN  /\ dirs' = dirs \cup Ancestors(entry_dir)
           /\ files' = IF NormPath(content_md_path) \in DOMAIN files
                       THEN files
                       ELSE WriteFile(files, content_md_path,
                                      generate_content_markdown(res))
           /\ result' = [kind |-> "value",
                         value |-> [res EXCEPT !.content_md_path =
                                                   content_md_path]]
    /\ pc' = "returned"
    /\ UNCHANGED <<args, download_dir, entry_dir, entry, idx, downloaded,
                   failed, requests, dir_ok, events, fetch_outcome>>
    /\ UNCHANGED tvars

\* lines 274-288 when the directory and the file can be written
WriteContentMd ==
    /\ LoopDone
    /\ dir_ok
    /\ LET res == EntryResult(entry, downloaded, failed)
           content_md_path == PathJoin(entry_dir, ContentMdName)
       IN  /\ dirs' = dirs \cup Ancestors(entry_dir)
           /\ files' = WriteFile(files, content_md_path,
                                 generate_content_markdown(res))
           /\ result' = [kind |-> "value",
                         value |-> [res EXCEPT !.content_md_path =
                                                   content_md_path]]
    /\ pc' = "returned"
    /\ UNCHANGED <<args, download_dir, entry_dir, entry, idx, downloaded,
                   failed, requests, dir_ok, events, fetch_outcome>>
    /\ UNCHANGED tvars

\* lines 282-285 when os.makedirs or open raises: nothing catches it
WriteContentMdRaiseWith(kind) ==
    /\ kind = "makedirs_error" <=> ~dir_ok
    /\ dirs' = IF dir_ok THEN dirs \cup Ancestors(entry_dir) ELSE dirs
    /\ result' = Raised("content_md", kind)
    /\ pc' = "raised"
    /\ UNCHANGED <<args, download_dir, entry_dir, entry, idx, downloaded,
                   failed, requests, files, dir_ok, events, fetch_outcome>>
    /\ UNCHANGED tvars

Call == pc = "idle" /\ \E dd \in DownloadDirArgs : CallWith(dd)

FetchEntryOk ==
    pc = "fetch_entry" /\ \E resp \in EntryResponses : FetchEntryOkWith(resp)

FetchEntryRaise ==
    pc = "fetch_entry" /\ \E resp \in EntryResponses : FetchEntryRaiseWith(resp)

EntryFileDownload ==
    /\ pc = "entry_file"
    /\ HasEntryFile(entry)
    /\ \E out \in Outcomes(ServedBody(0, entry.id)) : EntryFileDownloadWith(out)

AttachmentDownload ==
    /\ InLoop
    /\ IsCandidate(entry.attachments[idx])
    /\ entry.attachments[idx].file_url # <<>>
    /\ \E out \in Outcomes(ServedBody(1, entry.attachments[idx].id)) :
           AttachmentDownloadWith(out)

WriteContentMdRaise ==
    /\ LoopDone
    /\ \E kind \in {"makedirs_error", "open_error"} :
           WriteContentMdRaiseWith(kind)

Next ==
    \/ Call
    \/ FetchEntryOk
    \/ FetchEntryRaise
    \/ EntryFileDownload
    \/ EntryFileSkip
    \/ AttachmentSkip
    \/ AttachmentNotAvailable
    \/ AttachmentDownload
    \/ WriteContentMd
    \/ WriteContentMdRaise

Spec == Init /\ [][Next]_vars

(***************************************************************************)
(* mcp_server.py: the tool entry points.  A tool call loads the settings,  *)
(* resolves the base URL, parses its JSON-string arguments, calls one      *)
(* method of the client and formats what it returns, all of it inside      *)
(* try ... except Exception.                                               *)
(***************************************************************************)
EndsWith(s, p) ==
    Len(s) >= Len(p) /\ SubSeq(s, Len(s) - Len(p) + 1, Len(s)) = p

\* the outcome of an expression: a value, or an exception
Ok(v) == [raised |-> FALSE, value |-> v]

Raise(type, msg) == [raised |-> TRUE, exc |-> [type |-> type, msg |-> msg]]

ErrorPrefix == <<"E", "r", "r", "o", "r", ":", " ">>

NoBaseUrlMsg ==
    <<"N", "o", " ", "b", "a", "s", "e", "_", "u", "r", "l", " ", "p", "r",
        "o", "v", "i", "d", "e", "d", ".", " ", "S", "e", "t", " ", "S",
        "H", "A", "R", "E", "_", "A", "P", "I", "_", "B", "A", "S", "E",
        "_", "U", "R", "L", " ", "o", "r", " ", "p", "a", "s", "s", " ",
        "b", "a", "s", "e", "_", "u", "r", "l", " ", "a", "r", "g", "u",
        "m", "e", "n", "t", ".">>

\* the words of the error text of a JSON-string argument
InvalidLabel(arg) ==
    CASE arg = "filters"       -> <<"I", "n", "v", "a", "l", "i", "d", " ",
        "f", "i", "l", "t", "e", "r", "s", " ", "J", "S", "O", "N", ":", " ">>
      [] arg = "body"          -> <<"I", "n", "v", "a", "l", "i", "d", " ",
          "b", "o", "d", "y", " ", "J", "S", "O", "N", ":", " ">>
      [] arg = "custom_fields" -> <<"I", "n", "v", "a", "l", "i", "d", " ",
          "c", "u", "s", "t", "o", "m", "_", "f", "i", "e", "l", "d", "s",
          " ", "J", "S", "O", "N", ":", " ">>
      [] arg = "fields_json"   -> <<"I", "n", "v", "a", "l", "i", "d", " ",
          "f", "i", "e", "l", "d", "s", "_", "j", "s", "o", "n", ":", " ">>
      [] arg = "extra_fields"  -> <<"I", "n", "v", "a", "l", "i", "d", " ",
          "e", "x", "t", "r", "a", "_", "f", "i", "e", "l", "d", "s", " ",
          "J", "S", "O", "N", ":", " ">>

\* what Settings.from_env() can read: SHARE_API_BASE_URL unset or set,
\* SHARE_API_PROJECT_ID unset, a number, or something else
SettingsSet ==
    [ base_url : { <<>>, <<"e">> },
      download_dir : { SettingsDownloadDir },
      project_id : { <<>>, <<"7">>, <<"x">> } ]

\* the base_url argument of a tool: left empty, or given
BaseUrlArgs == { <<>>, BaseUrlArg }

(***************************************************************************)
(* json.loads, int() and the dict operations of the tools, on the texts a  *)
(* JSON-string argument is drawn from.  Python's json.loads accepts the    *)
(* text NaN and yields a float.                                            *)
(***************************************************************************)
TxBad == <<"x">>

TxObj == <<"{", "}">>

TxPid == <<"{", "\"", "p", "r", "o", "j", "e", "c", "t", "_", "i", "d",
    "\"", ":", " ", "9", "}">>

TxStatus == <<"{", "\"", "s", "\"", ":", " ", "2", "}">>

TxList == <<"[", "1", "]">>

TxNaN == <<"N", "a", "N">>

TxNull == <<"n", "u", "l", "l">>

JsonTexts == { <<>>, TxBad, TxObj, TxPid, TxStatus, TxList, TxNaN, TxNull }

\* json.loads(text) for text in JsonTexts
json_loads(text) ==
    CASE text = TxObj  -> Ok(JObj(<<>>))
      [] text = TxPid  -> Ok(JObj(<< <<"project_id", JInt(9)>> >>))
      [] text = TxStatus -> Ok(JObj(<< <<"s", JInt(2)>> >>))
      [] text = TxList -> Ok(JList(<<JInt(1)>>))
      [] text = TxNaN  -> Ok([t |-> "float", v |-> "nan"])
      [] text = TxNull -> Ok(JNull)
      [] OTHER         ->
             Raise("JSONDecodeError",
                   <<"E", "x", "p", "e", "c", "t", "i", "n", "g", " ", "v",
                       "a", "l", "u", "e", ":", " ", "l", "i", "n", "e",
                       " ", "1", " ", "c", "o", "l", "u", "m", "n", " ",
                       "1", " ", "(", "c", "h", "a", "r", " ", "0", ")">>)

\* type(x).__name__
TypeName(x) ==
    CASE x.t = "null"  -> <<"N", "o", "n", "e", "T", "y", "p", "e">>
      [] x.t = "float" -> <<"f", "l", "o", "a", "t">>
      [] x.t = "int"   -> <<"i", "n", "t">>
      [] x.t = "str"   -> <<"s", "t", "r">>
      [] x.t = "list"  -> <<"l", "i", "s", "t">>
      [] OTHER         -> <<"d", "i", "c", "t">>

RECURSIVE StrToInt(_)
StrToInt(s) ==
    IF s = <<>> THEN 0
    ELSE 10 * StrToInt(SubSeq(s, 1, Len(s) - 1))
         + (CHOOSE d \in 0..9 : DigitChar(d) = s[Len(s)])

\* int(text) of a text of decimal digits; any other text here is rejected
py_int(text) ==
    IF text # <<>>
       /\ \A i \in 1..Len(text) : \E d \in 0..9 : DigitChar(d) = text[i]
    THEN Ok(StrToInt(text))
    ELSE Raise("ValueError",
               <<"i", "n", "v", "a", "l", "i", "d", " ", "l", "i", "t", "e",
                   "r", "a", "l", " ", "f", "o", "r", " ", "i", "n", "t",
                   "(", ")", " ", "w", "i", "t", "h", " ", "b", "a", "s",
                   "e", " ", "1", "0", ":", " ", "'">>
               \o text \o <<"'">>)

\* "project_id" not in x
project_id_not_in(x) ==
    CASE x.t = "obj"  -> Ok(~HasKey(x, "project_id"))
      [] x.t = "list" ->
             Ok(~\E i \in 1..Len(x.v) :
                     x.v[i].t = "str" /\ x.v[i].v = <<"p", "r", "o", "j",
                         "e", "c", "t", "_", "i", "d">>)
      [] x.t = "str"  -> Ok(~Contains(x.v, <<"p", "r", "o", "j", "e", "c",
          "t", "_", "i", "d">>))
      [] OTHER        ->
             Raise("TypeError",
                   <<"a", "r", "g", "u", "m", "e", "n", "t", " ", "o", "f",
                       " ", "t", "y", "p", "e", " ", "'">> \o TypeName(x)
                   \o <<"'", " ", "i", "s", " ", "n", "o", "t", " ", "i",
                       "t", "e", "r", "a", "b", "l", "e">>)

\* d[key] = value on the pairs of a dict: replaced in place, or appended
SetKey(pairs, key, value) ==
    IF \E i \in 1..Len(pairs) : pairs[i][1] = key
    THEN [i \in 1..Len(pairs) |->
             IF pairs[i][1] = key THEN <<key, value>> ELSE pairs[i]]
    ELSE Append(pairs, <<key, value>>)

\* x["project_id"] = value
set_project_id(x, value) ==
    CASE x.t = "obj"  -> Ok(JObj(SetKey(x.v, "project_id", value)))
      [] x.t = "list" ->
             Raise("TypeError",
                   <<"l", "i", "s", "t", " ", "i", "n", "d", "i", "c", "e",
                       "s", " ", "m", "u", "s", "t", " ", "b", "e", " ",
                       "i", "n", "t", "e", "g", "e", "r", "s", " ", "o",
                       "r", " ", "s", "l", "i", "c", "e", "s", ",", " ",
                       "n", "o", "t", " ", "s", "t", "r">>)
      [] OTHER        ->
             Raise("TypeError",
                   <<"'">> \o TypeName(x)
                   \o <<"'", " ", "o", "b", "j", "e", "c", "t", " ", "d",
                       "o", "e", "s", " ", "n", "o", "t", " ", "s", "u",
                       "p", "p", "o", "r", "t", " ", "i", "t", "e", "m",
                       " ", "a", "s", "s", "i", "g", "n", "m", "e", "n",
                       "t">>)

RECURSIVE UpdatePairs(_, _)
UpdatePairs(pairs, more) ==
    IF more = <<>> THEN pairs
    ELSE UpdatePairs(SetKey(pairs, Head(more)[1], Head(more)[2]), Tail(more))

\* payload.update(x): x a dict, a list of numbers, or not iterable
dict_update(pairs, x) ==
    CASE x.t = "obj"  -> Ok(UpdatePairs(pairs, x.v))
      [] x.t = "list" ->
             IF x.v = <<>> THEN Ok(pairs)
             ELSE Raise("TypeError",
                        <<"c", "a", "n", "n", "o", "t", " ", "c", "o", "n",
                            "v", "e", "r", "t", " ", "d", "i", "c", "t",
                            "i", "o", "n", "a", "r", "y", " ", "u", "p",
                            "d", "a", "t", "e", " ", "s", "e", "q", "u",
                            "e", "n", "c", "e", " ", "e", "l", "e", "m",
                            "e", "n", "t", " ">>
                        \o <<"#", "0", " ", "t", "o", " ", "a", " ", "s",
                            "e", "q", "u", "e", "n", "c", "e">>)
      [] OTHER        ->
             Raise("TypeError",
                   <<"'">> \o TypeName(x) \o <<"'", " ", "o", "b", "j", "e",
                       "c", "t", " ", "i", "s", " ", "n", "o", "t", " ",
                       "i", "t", "e", "r", "a", "b", "l", "e">>)

(***************************************************************************)
(* The client as a tool sees it: one method call that returns its result   *)
(* or raises.                                                              *)
(***************************************************************************)
\* results with a format_output() method, by the text it yields
FormattedResults == { [formatted |-> <<"r">>] }

\* the Entry that update_entry returns
UpdatedEntries == { [id |-> EntryIdArg, subject |-> <<"S">>] }

\* the entry id text that create_entry returns
CreatedIds == { [entry_id |-> <<"4", "3">>] }

\* result is what the method returns when kind is "ok"
ClientOutcomes(results) ==
    [ kind : { "ok", "transport_error", "status_error" }, result : results ]

ToolReturn(text) == [kind |-> "str", text |-> text]

\* how the body of a tool ended: the client calls it made, the exception
\* raised inside it (if any), and what the tool gave back
Run(calls, e, out) == [client_calls |-> calls, exc |-> e, output |-> out]

Caught_Escapes(calls, e) ==
    Run(calls, e, [kind |-> "exception", text |-> e.msg])

\* except Exception as e: return f"Error: {e}"
Caught(calls, e) == Run(calls, e, ToolReturn(ErrorPrefix \o e.msg))

resolve_base_url_EnvFirst(base_url, s) ==
    LET effective == IF s.base_url # <<>> THEN s.base_url ELSE base_url
    IN  IF effective = <<>>
        THEN Raise("ValueError", NoBaseUrlMsg)
        ELSE Ok(effective)

\* _resolve_base_url
resolve_base_url(base_url, s) ==
    LET effective == IF base_url # <<>> THEN base_url ELSE s.base_url
    IN  IF effective = <<>>
        THEN Raise("ValueError", NoBaseUrlMsg)
        ELSE Ok(effective)

\* try: json.loads(text)
\* except json.JSONDecodeError as je: return f"Error: Invalid ...: {je}"
parse_json_arg(arg, text) ==
    LET r == json_loads(text)
    IN  IF r.raised
        THEN [stop |-> TRUE,
              run |-> Run(<<>>, r.exc,
                          ToolReturn(ErrorPrefix \o InvalidLabel(arg)
                                     \o r.exc.msg))]
        ELSE [stop |-> FALSE, value |-> r.value]

\* an optional JSON-string argument: parsed only when it is not empty
parse_optional(arg, text) ==
    IF text # <<>> THEN parse_json_arg(arg, text)
    ELSE [stop |-> FALSE, value |-> JNull]

\* client = ShareApiClient(settings); result = client.method(...);
\* return the text made of the result
call_client(method, base_url, a, out, text) ==
    LET c == [method |-> method, base_url |-> base_url, args |-> a,
              outcome |-> out.kind]
    IN  IF out.kind = "ok"
        THEN Run(<<c>>, NoExc, ToolReturn(text))
        ELSE Caught(<<c>>, [type |-> out.kind, msg |-> MsgOf(out.kind)])

\* the body shared by the tools that only resolve, call and format
simple_tool_run(method, base_url, a, s, out) ==
    LET r == resolve_base_url(base_url, s)
    IN  IF r.raised THEN Caught(<<>>, r.exc)
        ELSE call_client(method, r.value, a, out, out.result.formatted)

fetch_shared_entry_run(entry_id, base_url, dd, s, out) ==
    LET r == resolve_base_url(base_url, s)
        effective_download_dir == IF dd # <<>> THEN dd ELSE s.download_dir
    IN  IF r.raised THEN Caught(<<>>, r.exc)
        ELSE call_client("fetch_entry_with_files", r.value,
                         [entry_id |-> entry_id,
                          download_dir |-> effective_download_dir],
                         out, out.result.formatted)

\* as merge_project_id, were the configured project put over the caller's
merge_project_id_Overrides(parsed, project_id) ==
    IF project_id = <<>> THEN Ok(parsed)
    ELSE LET n == py_int(project_id)
         IN  IF n.raised THEN n
             ELSE set_project_id(
                      IF parsed.t = "null" THEN JObj(<<>>) ELSE parsed,
                      JInt(n.value))

\* list_entries, lines 140-145: the configured project id is merged in
merge_project_id(parsed, project_id) ==
    IF project_id = <<>> THEN Ok(parsed)
    ELSE LET absent == IF parsed.t = "null" THEN Ok(TRUE)
                       ELSE project_id_not_in(parsed)
         IN  IF absent.raised THEN absent
             ELSE IF ~absent.value THEN Ok(parsed)
             ELSE LET n == py_int(project_id)
                  IN  IF n.raised THEN n
                      ELSE set_project_id(
                               IF parsed.t = "null" THEN JObj(<<>>)
                               ELSE parsed,
                               JInt(n.value))

list_entries_run(base_url, page, per_page, filters, s, out) ==
    LET r == resolve_base_url(base_url, s)
        p == parse_optional("filters", filters)
        m == merge_project_id(p.value, s.project_id)
    IN  IF r.raised THEN Caught(<<>>, r.exc)
        ELSE IF p.stop THEN p.run
        ELSE IF m.raised THEN Caught(<<>>, m.exc)
        ELSE call_client("list_entries", r.value,
                         [page |-> page, per_page |-> per_page,
                          filters |-> m.value],
                         out, out.result.formatted)

update_entry_run(entry_id, base_url, subject, body, custom_fields, s, out) ==
    LET r == resolve_base_url(base_url, s)
        payload0 == IF subject # <<>>
                    THEN << <<"subject", JStr(subject)>> >> ELSE <<>>
        pb == parse_optional("body", body)
        payload1 == IF body # <<>> THEN SetKey(payload0, "body", pb.value)
                    ELSE payload0
        pf == parse_optional("custom_fields", custom_fields)
        u == IF custom_fields # <<>> THEN dict_update(payload1, pf.value)
             ELSE Ok(payload1)
    IN  IF r.raised THEN Caught(<<>>, r.exc)
        ELSE IF pb.stop THEN pb.run
        ELSE IF pf.stop THEN pf.run
        ELSE IF u.raised THEN Caught(<<>>, u.exc)
        ELSE call_client("update_entry", r.value,
                         [entry_id |-> entry_id, payload |-> JObj(u.value)],
                         out,
                         <<"U", "p", "d", "a", "t", "e", "d", " ", "e", "n",
                             "t", "r", "y", " ",
                             "#">> \o IntToStr(out.result.id)
                         \o <<":", " ">> \o out.result.subject)

import_custom_fields_run(fields_json, base_url, s, out) ==
    LET r == resolve_base_url(base_url, s)
        p == parse_json_arg("fields_json", fields_json)
    IN  IF r.raised THEN Caught(<<>>, r.exc)
        ELSE IF p.stop THEN p.run
        ELSE call_client("import_custom_fields", r.value,
                         [fields_json |-> p.value],
                         out, out.result.formatted)

create_entry_run(base_url, text_or_url, file_path, extra_fields, s, out) ==
    LET r == resolve_base_url(base_url, s)
        p == parse_optional("extra_fields", extra_fields)
    IN  IF r.raised THEN Caught(<<>>, r.exc)
        ELSE IF p.stop THEN p.run
        ELSE call_client("create_entry", r.value,
                         [text_or_url |-> text_or_url,
                          file_path |-> file_path,
                          extra_fields |-> p.value],
                         out,
                         <<"C", "r", "e", "a", "t", "e", "d", " ", "e", "n",
                             "t", "r", "y", ":", " ">> \o out.result.entry_id)

(***************************************************************************)
(* One action per tool: the whole call.  s is what Settings.from_env()     *)
(* reads, a the arguments, run how the body ends.  The thirteen tools that *)
(* only resolve the base URL, call the client method of their own name and *)
(* format its result share one action.                                     *)
(***************************************************************************)
\* the server is between two tool calls
Idle == call.tool = "none"

Invoke(tool, a, s, run) ==
    /\ settings' = s
    /\ call' = [tool |-> tool, args |-> a]
    /\ client_calls' = run.client_calls
    /\ exc' = run.exc
    /\ output' = run.output
    /\ UNCHANGED <<fvars, fn_call, fn_value>>

fetch_shared_entry ==
    /\ Idle
    /\ \E b \in BaseUrlArgs, d \in { <<>>, <<Slash, "d">> },
          s \in SettingsSet, out \in ClientOutcomes(FormattedResults) :
           Invoke("fetch_shared_entry",
                  [entry_id |-> EntryIdArg, base_url |-> b,
                   download_dir |-> d],
                  s, fetch_shared_entry_run(EntryIdArg, b, d, s, out))

list_entries ==
    /\ Idle
    /\ \E b \in BaseUrlArgs, f \in JsonTexts, s \in SettingsSet,
          out \in ClientOutcomes(FormattedResults) :
           Invoke("list_entries",
                  [base_url |-> b, page |-> 1, per_page |-> 20,
                   filters |-> f],
                  s, list_entries_run(b, 1, 20, f, s, out))

update_entry ==
    /\ Idle
    /\ \E b \in BaseUrlArgs, subject \in { <<>>, <<"S">> },
          body \in JsonTexts, cf \in JsonTexts, s \in SettingsSet,
          out \in ClientOutcomes(UpdatedEntries) :
           Invoke("update_entry",
                  [entry_id |-> EntryIdArg, base_url |-> b,
                   subject |-> subject, body |-> body,
                   custom_fields |-> cf],
                  s, update_entry_run(EntryIdArg, b, subject, body, cf, s,
                                      out))

import_custom_fields ==
    /\ Idle
    /\ \E b \in BaseUrlArgs, f \in JsonTexts, s \in SettingsSet,
          out \in ClientOutcomes(FormattedResults) :
           Invoke("import_custom_fields",
                  [fields_json |-> f, base_url |-> b],
                  s, import_custom_fields_run(f, b, s, out))

create_entry ==
    /\ Idle
    /\ \E b \in BaseUrlArgs, t \in { <<>>, <<"t">> }, x \in JsonTexts,
          s \in SettingsSet, out \in ClientOutcomes(CreatedIds) :
           Invoke("create_entry",
                  [base_url |-> b, text_or_url |-> t, file_path |-> <<>>,
                   extra_fields |-> x],
                  s, create_entry_run(b, t, <<>>, x, s, out))

\* what each of the other tools passes to the client method of its name
SimpleToolArgs(tool) ==
    CASE tool = "delete_entry" -> [entry_id |-> EntryIdArg]
      [] tool = "create_custom_field" ->
             [name |-> <<"f">>, description |-> <<>>, sort_order |-> 0]
      [] tool = "update_custom_field" ->
             [name |-> <<"f">>,
              payload |-> JObj(<< <<"description", JStr(<<>>)>>,
                                  <<"sort_order", JInt(0)>> >>)]
      [] tool = "delete_custom_field" -> [name |-> <<"f">>]
      [] tool = "list_field_options" -> [field_name |-> <<"f">>]
      [] tool = "create_field_option" ->
             [field_name |-> <<"f">>, name |-> <<"o">>]
      [] tool = "update_field_option" ->
             [field_name |-> <<"f">>, option_id |-> 1, name |-> <<"o">>]
      [] tool = "delete_field_option" ->
             [field_name |-> <<"f">>, option_id |-> 1]
      [] tool = "delete_attachment" -> [attachment_id |-> 1]
      [] OTHER -> <<>>

SimpleTools ==
    { "delete_entry", "list_custom_fields", "create_custom_field",
      "update_custom_field", "delete_custom_field", "export_custom_fields",
      "list_field_options", "create_field_option", "update_field_option",
      "delete_field_option", "delete_attachment", "get_auth_info",
      "list_fields" }

simple_tool ==
    /\ Idle
    /\ \E tool \in SimpleTools, b \in BaseUrlArgs, s \in SettingsSet,
          out \in ClientOutcomes(FormattedResults) :
           Invoke(tool, [base_url |-> b, passed |-> SimpleToolArgs(tool)], s,
                  simple_tool_run(tool, b, SimpleToolArgs(tool), s, out))

\* the result goes back to the caller and the server waits for the next call
Respond ==
    /\ ~Idle
    /\ settings' = NoSettings
    /\ call' = NoCall
    /\ client_calls' = <<>>
    /\ output' = NoOutput
    /\ exc' = NoExc
    /\ UNCHANGED <<fvars, fn_call, fn_value>>

NextTools ==
    \/ fetch_shared_entry
    \/ list_entries
    \/ update_entry
    \/ import_custom_fields
    \/ create_entry
    \/ simple_tool
    \/ Respond

SpecTools == Init /\ [][NextTools]_vars

(***************************************************************************)
(* models.py: EntryResult.format_output.                                   *)
(***************************************************************************)
\* the lines "  key: value" of a body mapping, after an indentation
BodyLines(indent, body) ==
    [k \in 1..Len(body) |->
        indent \o <<body[k][1], ":", " ">> \o StrOf(body[k][2])]

format_output_lines(e, downloaded_files, failed_downloads, content_md_path) ==
  LET Bytes(n) ==
          <<" ", "(">> \o IntToStr(n) \o <<" ", "b", "y", "t", "e", "s", ")">>
  IN
    << <<"E", "n", "t", "r", "y", " ", "#">> \o IntToStr(e.id) \o <<":", " ">> \o e.subject,
       <<"T", "y", "p", "e", ":", " ">> \o e.type >>
    \o (IF e.body # <<>>
        THEN << <<>>, <<"B", "o", "d", "y", ":">> >> \o BodyLines(<<" ", " ">>, e.body)
        ELSE <<>>)
    \o (IF e.filename # <<>>
        THEN << <<"F", "i", "l", "e", ":", " ">> \o e.filename \o Bytes(e.file_size) >>
        ELSE <<>>)
    \o (IF e.attachments # <<>>
        THEN << <<>>,
                <<"A", "t", "t", "a", "c", "h", "m", "e", "n", "t", "s", " ", "(">>
                    \o IntToStr(Len(e.attachments)) \o <<")", ":">> >>
             \o Flatten([i \in 1..Len(e.attachments) |->
                    LET att == e.attachments[i]
                    IN  << <<" ", " ", "[">> \o IntToStr(att.id) \o <<"]", " ">>
                           \o att.type
                           \o (IF att.filename # <<>>
                               THEN <<":", " ">> \o att.filename
                                    \o Bytes(att.file_size)
                               ELSE <<>>) >>
                        \o BodyLines(<<" ", " ", " ", " ">>, att.body)])
        ELSE <<>>)
    \o (IF downloaded_files # <<>>
        THEN << <<>>, <<"D", "o", "w", "n", "l", "o", "a", "d", "e", "d", " ", "f", "i", "l", "e", "s", ":">> >>
             \o [i \in 1..Len(downloaded_files) |->
                    LET df == downloaded_files[i]
                    IN  <<" ", " ">> \o df.filename \o <<" ", "-", ">", " ">>
                        \o df.file_path \o Bytes(df.file_size)]
        ELSE <<>>)
    \o (IF failed_downloads # <<>>
        THEN << <<>>, <<"F", "a", "i", "l", "e", "d", " ", "d", "o", "w", "n", "l", "o", "a", "d", "s", ":">> >>
             \o [i \in 1..Len(failed_downloads) |->
                    LET fd == failed_downloads[i]
                    IN  <<" ", " ", "[">> \o IntToStr(fd.attachment_id)
                        \o <<"]", " ">> \o fd.filename \o <<":", " ">>
                        \o fd.error]
        ELSE <<>>)
    \o (IF content_md_path # <<>>
        THEN << <<>>, <<"C", "o", "n", "t", "e", "n", "t", " ", "m", "a", "r", "k", "d", "o", "w", "n", ":", " ">> \o content_md_path >>
        ELSE <<>>)

\* as format_output, were the last failure left out
format_output_DropsFailure(res) ==
    JoinLines(format_output_lines(res.entry, res.downloaded_files,
                                  SubSeq(res.failed_downloads, 1,
                                         Len(res.failed_downloads) - 1),
                                  res.content_md_path))

format_output(res) ==
    JoinLines(format_output_lines(res.entry, res.downloaded_files,
                                  res.failed_downloads, res.content_md_path))

(***************************************************************************)
(* The functions of models.py and api_client.py that only compute, each    *)
(* applied once to an argument drawn from a bounded set.                   *)
(***************************************************************************)
Apply(fn, arg, value) ==
    /\ fn_call' = [fn |-> fn, arg |-> arg]
    /\ fn_value' = value
    /\ UNCHANGED <<fvars, settings, call, client_calls, output, exc>>

\* the entries handed to generate_content_markdown: a subject, a body with
\* empty, blank and padded values, a file name, and attachments of type
\* "text", of type "file" (image, other, nameless) and of another type
MdEntries ==
    LET kinds ==
            { [type |-> TypeText, filename |-> <<>>,
               body |-> << <<"a", JStr(<<" ", "c">>)>>, <<"b", JStr(<<>>)>>,
                           <<"c", JStr(<<"d">>)>> >>],
              [type |-> TypeFile, filename |-> FnPng, body |-> <<>>],
              [type |-> TypeFile, filename |-> FnMd,
               body |-> << <<"a", JStr(<<"m">>)>> >>],
              [type |-> TypeFile, filename |-> <<>>,
               body |-> << <<"a", JStr(<<"n">>)>> >>],
              [type |-> <<"l", "i", "n", "k">>, filename |-> FnPng,
               body |-> << <<"a", JStr(<<"k">>)>> >>] }
        MdAttachments ==
            { [id |-> 0, type |-> t.type, body |-> t.body,
               filename |-> t.filename, file_size |-> 0, file_url |-> <<>>] :
                t \in kinds }
    IN  { [id |-> EntryIdArg, type |-> TypeText, subject |-> subject,
           body |-> body, filename |-> filename, file_size |-> 0,
           file_url |-> <<>>, attachments |-> attachments] :
            subject \in { <<>>, <<"S">> },
            body \in { <<>>, << <<"a", JStr(<<"h">>)>> >>,
                       << <<"a", JStr(<<" ">>)>>,
                          <<"b", JStr(<<"h", " ">>)>> >>,
                       << <<"b", JStr(<<"i">>)>>, <<"a", JStr(<<"h">>)>> >> },
            filename \in { <<>>, FnPng, FnMd },
            attachments \in
                UNION { [1..n -> MdAttachments] : n \in 0..MaxAtts } }

apply_generate_content_markdown ==
    /\ fn_call = NoFn
    /\ \E e \in MdEntries :
           Apply("generate_content_markdown", e,
                 generate_content_markdown(EntryResult(e, <<>>, <<>>)))

\* the file names handed to _is_image_file: a stem, then an ending in every
\* mix of upper and lower case
Filenames ==
    LET UpperAt(s, positions) ==
            [i \in 1..Len(s) |->
                IF i \in positions /\ \E k \in 1..26 : LowerLetters[k] = s[i]
                THEN UpperLetters[CHOOSE k \in 1..26 : LowerLetters[k] = s[i]]
                ELSE s[i]]
    IN  { stem \o UpperAt(ending, positions) :
            stem \in { <<>>, <<"a">>, <<"a", ".", "b">>, <<"a", ".", "p", "n", "g">>, <<".">> },
            ending \in IMAGE_EXTENSIONS
                       \cup { <<>>, <<"p", "n", "g">>, <<".", "p", "n">>, <<".", "p", "n", "g", "s">>, <<".", "m", "d">>, <<".", "p", "n", "g", ".">>, <<".", "p", ".", "g">>, <<"j", "p", "e", "g">> },
            positions \in SUBSET (2..5) }

apply_is_image_file ==
    /\ fn_call = NoFn
    /\ \E filename \in Filenames :
           Apply("is_image_file", filename, is_image_file(filename))

\* format_output on the result of a fetch: an entry, the files that were
\* downloaded, the downloads that failed, the path of content.md
apply_format_output ==
    /\ fn_call = NoFn
    /\ \E e \in { x \in MdEntries :
                     x.subject # <<>> /\ Len(x.attachments) <= 1 },
          n \in 0..MaxAtts, f \in 0..MaxAtts :
       \E downloaded_files \in
              [1..n -> { [attachment_id |-> 1, filename |-> FnPng,
                          file_path |-> PathJoin(<<"/", "d">>, FnPng),
                          file_size |-> 12],
                         [attachment_id |-> 2, filename |-> FnMd,
                          file_path |-> PathJoin(<<"/", "d">>, FnMd),
                          file_size |-> 0] }],
          failed_downloads \in
              [1..f -> { FailedDownload(3, FnPng, NotAvailableMsg),
                         FailedDownload(EntryIdArg, FnMd, MsgOf("http_error")) }],
          content_md_path \in { <<>>, PathJoin(<<"/", "d">>, ContentMdName) } :
           LET res == [entry |-> e, downloaded_files |-> downloaded_files,
                       failed_downloads |-> failed_downloads,
                       content_md_path |-> content_md_path]
           IN  Apply("format_output", res, format_output(res))

\* the base URLs handed to the client: scheme, host, port, path and trailing
\* slashes
BaseUrls ==
    { scheme \o <<":", "/", "/">> \o host \o port \o path \o slashes :
        scheme \in { <<"h", "t", "t", "p">>, <<"h", "t", "t", "p", "s">> },
        host \in { <<"l", "o", "c", "a", "l", "h", "o", "s", "t">>,
                   <<"e", "x", "a", "m", "p", "l", "e", ".", "c", "o", "m">>,
                   <<"l", "o", "c", "a", "l", "h", "o", "s", "t", ".", "e", "x", "a", "m", "p", "l", "e", ".", "c", "o", "m">>,
                   <<"1", "2", "7", ".", "0", ".", "0", ".", "1">> },
        port \in { <<>>, <<":", "8", "0", "8", "0">> },
        path \in { <<>>, <<"/", "s", "h", "a", "r", "e">> },
        slashes \in { <<>>, <<"/">>, <<"/", "/">>, <<"/", "/", "/">> } }

\* the URL fetch_entry requests
apply_EntryUrl ==
    /\ fn_call = NoFn
    /\ \E base_url \in BaseUrls :
           Apply("EntryUrl", base_url, EntryUrl(base_url, EntryIdArg))

\* a client is constructed from the settings and one of its methods issues
\* its request: each opens httpx.Client(auth=self._auth), and the two
\* downloads stream the response
apply_request ==
    /\ fn_call = NoFn
    /\ \E auth_user \in { <<>>, <<"u">>, <<" ">> },
          auth_password \in { <<>>, <<"p">>, <<" ">> },
          site \in {
                 <<"fetch_entry", "GET", FALSE>>,
                 <<"download_file", "GET", TRUE>>,
                 <<"download_entry_file", "GET", TRUE>>,
                 <<"list_entries", "GET", FALSE>>,
                 <<"update_entry", "PUT", FALSE>>,
                 <<"delete_entry", "DELETE", FALSE>>,
                 <<"list_custom_fields", "GET", FALSE>>,
                 <<"create_custom_field", "POST", FALSE>>,
                 <<"update_custom_field", "PUT", FALSE>>,
                 <<"delete_custom_field", "DELETE", FALSE>>,
                 <<"export_custom_fields", "GET", FALSE>>,
                 <<"import_custom_fields", "POST", FALSE>>,
                 <<"list_field_options", "GET", FALSE>>,
                 <<"create_field_option", "POST", FALSE>>,
                 <<"update_field_option", "PUT", FALSE>>,
                 <<"delete_field_option", "DELETE", FALSE>>,
                 <<"delete_attachment", "DELETE", FALSE>>,
                 <<"get_auth_info", "GET", FALSE>>,
                 <<"list_fields", "GET", FALSE>>,
                 <<"create_entry", "POST", FALSE>> } :
           LET self == [auth |-> client_auth(auth_user, auth_password)]
           IN  Apply("request",
                     [auth_user |-> auth_user, auth_password |-> auth_password,
                      method |-> site[1]],
                     [verb |-> site[2], stream |-> site[3],
                      auth |-> self.auth])

\* test_connection.py, main(): the --base-url argument (empty when not
\* given), the SHARE_API_BASE_URL of the settings, and how the GET ends: an
\* exception of httpx, or a response whose body is not JSON (data absent)
\* or is the JSON value data.  What main does: the GETs it issued, and the
\* value it returned or the exception that left it.
apply_main ==
    /\ fn_call = NoFn
    /\ \E base_url_arg \in BaseUrlArgs, s \in SettingsSet,
          out \in { [kind |-> k] :
                      k \in {"ConnectError", "HTTPStatusError",
                             "TimeoutException", "ReadError", "not_json"} }
                  \cup { [kind |-> "json", data |-> d] :
                           d \in { JList(<<>>), JNull, JObj(<<>>),
                                   JObj(<< <<"subject", JStr(<<"S">>)>>,
                                           <<"attachments",
                                             JList(<<JObj(<<>>)>>)>> >>),
                                   RawEntryNullAttachments } } :
           LET base_url == IF base_url_arg # <<>> THEN base_url_arg
                           ELSE s.base_url
               url == RStripSlash(base_url) \o ApiPhp
                      \o <<"/", "e", "n", "t", "r", "i", "e", "s", "/">>
                      \o IntToStr(1)
               attachments ==
                   GetOr(out.data, "attachments", JList(<<>>))
               Return(code, reqs) ==
                   [kind |-> "return", code |-> code, requests |-> reqs]
               RaiseOut(type, reqs) ==
                   [kind |-> "raise", type |-> type, requests |-> reqs]
           IN  Apply("main",
                     [base_url |-> base_url_arg, settings |-> s, out |-> out],
                     IF base_url = <<>> THEN Return(1, <<>>)
                     ELSE IF out.kind \in {"ConnectError", "HTTPStatusError",
                                           "TimeoutException"}
                     THEN Return(1, <<Get_(url)>>)
                     ELSE IF out.kind = "ReadError"
                     THEN RaiseOut("ReadError", <<Get_(url)>>)
                     ELSE IF out.kind = "not_json"
                     THEN Return(1, <<Get_(url)>>)
                     ELSE IF out.data.t # "obj"
                     THEN Return(1, <<Get_(url)>>)
                     ELSE IF attachments.t \in {"list", "obj", "str"}
                     THEN Return(0, <<Get_(url)>>)
                     ELSE RaiseOut("TypeError", <<Get_(url)>>))

\* as client_list_entries_params, were page and per_page set after the
\* filters
client_list_entries_params_ArgsLast(page, per_page, filters) ==
    LET own == << <<"page", JInt(page)>>, <<"per_page", JInt(per_page)>> >>
        r == IF Truthy(filters) THEN dict_update(<<>>, filters) ELSE Ok(<<>>)
    IN  IF r.raised THEN r ELSE Ok(UpdatePairs(r.value, own))

\* ShareApiClient.list_entries, lines 301-303: the params of the GET
client_list_entries_params(page, per_page, filters) ==
    LET params == << <<"page", JInt(page)>>, <<"per_page", JInt(per_page)>> >>
    IN  IF Truthy(filters) THEN dict_update(params, filters) ELSE Ok(params)

\* the client's list_entries is called with a page, a page size and filters:
\* None, an empty mapping, mappings with and without the keys page and
\* per_page, and what the tool can also hand over, a list
apply_client_list_entries ==
    /\ fn_call = NoFn
    /\ \E page \in {1, 2}, per_page \in {20, 50},
          filters \in
              { JNull, JObj(<<>>), JList(<<>>), JList(<<JInt(1)>>),
                JObj(<< <<"s", JInt(2)>> >>),
                JObj(<< <<"s", JStr(<<"a", " ">>)>>, <<"project_id", JInt(9)>> >>),
                JObj(<< <<"page", JInt(7)>> >>),
                JObj(<< <<"per_page", JStr(<<"5">>)>>, <<"s", JNull>> >>),
                JObj(<< <<"s", JInt(0)>>, <<"per_page", JInt(5)>>,
                        <<"page", JNull>> >>) } :
           Apply("client.list_entries",
                 [page |-> page, per_page |-> per_page, filters |-> filters],
                 client_list_entries_params(page, per_page, filters))

NextFns ==
    \/ apply_generate_content_markdown
    \/ apply_is_image_file
    \/ apply_format_output
    \/ apply_EntryUrl
    \/ apply_request
    \/ apply_main
    \/ apply_client_list_entries

SpecFns == Init /\ [][NextFns]_vars

(***************************************************************************)
(* Vocabulary of the properties of fetch_entry_with_files.                 *)
(***************************************************************************)
Finished == pc \in {"returned", "raised"}

\* the entry was fetched and parsed: the variable entry holds it
Fetched == fetch_outcome = "ok"

\* the loop over the attachments is over
PastLoop == Fetched /\ (LoopDone \/ Finished)

RaisedKinds == {"http_error", "open_error", "stream_error", "makedirs_error"}

EntryHasBoth == entry.file_url # <<>> /\ entry.filename # <<>>

AttPositions == 1..Len(entry.attachments)

IsFileAtt(i) == entry.attachments[i].type = TypeFile

HasName(i) == entry.attachments[i].filename # <<>>

HasUrl(i) == entry.attachments[i].file_url # <<>>

\* the item an event is about, read from the entry
ItemOf(ev) ==
    IF ev.src = "entry"
    THEN [id |-> entry.id, filename |-> entry.filename]
    ELSE [id |-> entry.attachments[ev.pos].id,
          filename |-> entry.attachments[ev.pos].filename]

IsOkEvent(ev) == ev.kind = "ok"

IsFailEvent(ev) == ev.kind # "ok"

OkEvents == SelectSeq(events, IsOkEvent)

FailEvents == SelectSeq(events, IsFailEvent)

ErrorTextOf(ev) ==
    IF ev.kind = "not_available" THEN NotAvailableMsg ELSE MsgOf(ev.kind)

\* id and filename of each record of a result sequence
Keys(recs) ==
    [i \in 1..Len(recs) |->
        [id |-> recs[i].attachment_id, filename |-> recs[i].filename]]

NotAvailableWords ==
    <<"n", "o", "t", " ", "a", "v", "a", "i", "l", "a", "b", "l", "e">>

EntryGet == Get_(EntryUrl(args.base_url, args.entry_id))

C2_AsClaimed ==
    pc = "returned" =>
        LET N == { i \in AttPositions : IsFileAtt(i) /\ HasUrl(i) }
            M == { i \in AttPositions : IsFileAtt(i) /\ ~HasUrl(i) }
            res == result.value
        IN  /\ Len(res.downloaded_files) + Len(res.failed_downloads)
                   = Cardinality(N) + Cardinality(M)
            /\ \A i \in M :
                   \E j \in 1..Len(res.failed_downloads) :
                       /\ res.failed_downloads[j].attachment_id
                              = entry.attachments[i].id
                       /\ Contains(res.failed_downloads[j].error,
                                   NotAvailableWords)

\* C2 (amended): len(downloaded_files) + len(failed_downloads) == N + M + E,
\* where N and M count the attachments of type "file" that have a non-empty
\* filename, with and without a file URL, and E is 1 when the entry itself has
\* both a file URL and a filename (else 0); each of the M attachments is in
\* failed_downloads, with its id and filename and an error text containing
\* "not available".
C2_CountOfRecords ==
    pc = "returned" =>
        LET N == { i \in AttPositions : IsFileAtt(i) /\ HasName(i) /\ HasUrl(i) }
            M == { i \in AttPositions : IsFileAtt(i) /\ HasName(i) /\ ~HasUrl(i) }
            E == IF EntryHasBoth THEN 1 ELSE 0
            res == result.value
        IN  /\ Len(res.downloaded_files) + Len(res.failed_downloads)
                   = Cardinality(N) + Cardinality(M) + E
            /\ \A i \in M :
                   \E j \in 1..Len(res.failed_downloads) :
                       /\ res.failed_downloads[j].attachment_id
                              = entry.attachments[i].id
                       /\ res.failed_downloads[j].filename
                              = entry.attachments[i].filename
                       /\ Contains(res.failed_downloads[j].error,
                                   NotAvailableWords)

\* C2 witness: a returned result for an entry with its own file, a file
\* attachment with a URL and one without.
C2_Witness ==
    /\ pc = "returned"
    /\ EntryHasBoth
    /\ \E i, j \in AttPositions :
           /\ IsFileAtt(i) /\ HasName(i) /\ HasUrl(i)
           /\ IsFileAtt(j) /\ HasName(j) /\ ~HasUrl(j)

\* the candidates of cands that owner gives to tag, in order
RECURSIVE OwnedBy(_, _, _, _)
OwnedBy(cands, owner, tag, i) ==
    IF i > Len(cands) THEN <<>>
    ELSE (IF owner[i] = tag THEN <<cands[i]>> ELSE <<>>)
         \o OwnedBy(cands, owner, tag, i + 1)

\* each candidate has exactly one record, in exactly one of the two
\* sequences, with its id and filename, and there is no other record
OneToOne(cands, dl, fl) ==
    \E owner \in [1..Len(cands) -> {"downloaded", "failed"}] :
        /\ OwnedBy(cands, owner, "downloaded", 1) = Keys(dl)
        /\ OwnedBy(cands, owner, "failed", 1) = Keys(fl)

AttKey(i) ==
    [id |-> entry.attachments[i].id, filename |-> entry.attachments[i].filename]

RECURSIVE AttCands(_, _)
AttCands(Keep(_), i) ==
    IF i > Len(entry.attachments) THEN <<>>
    ELSE (IF Keep(i) THEN <<AttKey(i)>> ELSE <<>>) \o AttCands(Keep, i + 1)

EntryCand == <<[id |-> entry.id, filename |-> entry.filename]>>

IsNamedFileAtt(i) == IsFileAtt(i) /\ HasName(i)

\* C3 as claimed: the records correspond one-to-one to the entry-level file
\* and each attachment of type "file".
C3_AsClaimed ==
    pc = "returned" =>
        OneToOne((IF entry.filename # <<>> THEN EntryCand ELSE <<>>)
                     \o AttCands(IsFileAtt, 1),
                 result.value.downloaded_files, result.value.failed_downloads)

\* C3 (amended): the records of downloaded_files and failed_downloads
\* correspond one-to-one to the entry-level file when the entry has both a
\* file URL and a filename, and to each attachment of type "file" that has a
\* non-empty filename; there is no record for anything else (none for text
\* attachments, none for file attachments without a filename, none for an
\* entry-level filename without a URL).
C3_RecordsMatchCandidates ==
    pc = "returned" =>
        OneToOne((IF EntryHasBoth THEN EntryCand ELSE <<>>)
                     \o AttCands(IsNamedFileAtt, 1),
                 result.value.downloaded_files, result.value.failed_downloads)

\* C3 witness: a returned result with a downloaded file, a failed one and a
\* text attachment.
C3_Witness ==
    /\ pc = "returned"
    /\ Len(result.value.downloaded_files) >= 1
    /\ Len(result.value.failed_downloads) >= 1
    /\ \E i \in AttPositions : entry.attachments[i].type = TypeText

\* C4: when fetching the entry fails (transport error, status error, body
\* that cannot be decoded or parsed) the failure leaves the call, and nothing
\* but the GET of the entry has happened: no download request, no directory,
\* no content.md, no record.
C4_FetchFailurePropagates ==
    /\ fetch_outcome \notin {"none", "ok"} =>
           /\ pc = "raised"
           /\ result = [kind |-> "exception", where |-> "fetch_entry",
                        msg |-> MsgOf(fetch_outcome)]
           /\ requests = <<EntryGet>>
           /\ dirs = InitDirs
           /\ files = NoFiles
           /\ downloaded = <<>> /\ failed = <<>> /\ events = <<>>
    /\ pc = "fetch_entry" =>
           requests = <<>> /\ dirs = InitDirs /\ files = NoFiles

\* C4 witness: the GET of the entry ended with a status error.
C4_Witness == pc = "raised" /\ fetch_outcome = "status_error"

\* C8 as claimed: after the call returns every DownloadedFile.file_path is
\* {absolute download_dir}/{entry_id}/{filename}, and content.md is in that
\* directory, which exists, and is the content_md_path of the result.
C8_AsClaimed ==
    pc = "returned" =>
        LET root == AbsPath(IF args.download_dir = NoneArg
                            THEN SettingsDownloadDir ELSE args.download_dir)
            sub == root \o <<Slash>> \o IntToStr(args.entry_id)
            res == result.value
        IN  /\ \A i \in 1..Len(res.downloaded_files) :
                   res.downloaded_files[i].file_path
                       = sub \o <<Slash>> \o res.downloaded_files[i].filename
            /\ sub \in dirs
            /\ (sub \o <<Slash>> \o ContentMdName) \in DOMAIN files
            /\ res.content_md_path = sub \o <<Slash>> \o ContentMdName

\* C9: once the entry is fetched, an entry-level download is attempted exactly
\* when the entry has both a file URL and a filename, exactly once and before
\* any attachment; its GET goes to /entries/{entry.id}/file right after the
\* GET of the entry (the request is issued unless creating the directory
\* failed first); on success the first DownloadedFile carries the entry's own
\* id; without a file URL nothing is attempted.
C9_EntryLevelDownload ==
    (Fetched /\ pc # "entry_file") =>
        LET attempts == { k \in 1..Len(events) : events[k].src = "entry" }
            gets == { k \in 1..Len(requests) :
                        requests[k] = Get_(EntryFileUrl(args.base_url, entry.id)) }
        IN  /\ attempts = IF EntryHasBoth THEN {1} ELSE {}
            /\ gets = IF EntryHasBoth /\ dir_ok THEN {2} ELSE {}
            /\ (EntryHasBoth /\ events[1].kind = "ok") =>
                   /\ downloaded[1].attachment_id = entry.id
                   /\ downloaded[1].filename = entry.filename

\* C9 witness: an entry-level file was downloaded, keyed by the id the
\* response carries, and attachments were handled after it.
C9_Witness ==
    /\ pc = "returned"
    /\ EntryHasBoth
    /\ Len(events) >= 2
    /\ events[1].kind = "ok"
    /\ entry.id # args.entry_id
    /\ result.value.downloaded_files[1].attachment_id = entry.id

IsDownloadable(i) == IsFileAtt(i) /\ HasName(i) /\ HasUrl(i)

RECURSIVE AttGets(_)
AttGets(i) ==
    IF i > Len(entry.attachments) THEN <<>>
    ELSE (IF IsDownloadable(i)
          THEN <<Get_(FileUrl(args.base_url, entry.attachments[i].id))>>
          ELSE <<>>) \o AttGets(i + 1)

\* one download GET per candidate with a filename and a file URL, in order
DownloadGets ==
    (IF EntryHasBoth THEN <<Get_(EntryFileUrl(args.base_url, entry.id))>>
     ELSE <<>>) \o AttGets(1)

\* C10 as claimed: one GET for the entry plus exactly one download GET per
\* candidate with a filename and a file URL; a file attachment without a file
\* URL is recorded as failed with "File not available on server".
C10_AsClaimed ==
    (Fetched /\ Finished) =>
        /\ requests = <<EntryGet>> \o DownloadGets
        /\ \A i \in AttPositions :
               (IsFileAtt(i) /\ ~HasUrl(i)) =>
                   \E j \in 1..Len(failed) :
                       failed[j] = FailedDownload(entry.attachments[i].id,
                                       entry.attachments[i].filename,
                                       NotAvailableMsg)

\* C10 (amended): one call issues exactly one GET for the entry and at most
\* one download GET per candidate with a filename and a file URL: exactly one
\* each, in order, when the entry directory can be created, and none when
\* os.makedirs raises before the request; a file attachment with a filename
\* and without a file URL is recorded as failed with "File not available on
\* server" and causes no request (one without a filename gets no record); no
\* request is repeated.
C10_RequestsIssued ==
    /\ (Finished /\ ~Fetched) => requests = <<EntryGet>>
    /\ PastLoop =>
           /\ requests = <<EntryGet>> \o (IF dir_ok THEN DownloadGets ELSE <<>>)
           /\ \A i \in AttPositions :
                  (IsFileAtt(i) /\ HasName(i) /\ ~HasUrl(i)) =>
                      \E j \in 1..Len(failed) :
                          failed[j] = FailedDownload(entry.attachments[i].id,
                                          entry.attachments[i].filename,
                                          NotAvailableMsg)
    /\ \A i, j \in 1..Len(requests) : i # j => requests[i] # requests[j]

\* C10 witness: a call that issued the GET of the entry and two download
\* GETs, for an entry that also has a file attachment without a URL.
C10_Witness ==
    /\ pc = "returned"
    /\ Len(requests) = 3
    /\ \E i \in AttPositions : IsFileAtt(i) /\ HasName(i) /\ ~HasUrl(i)

(***************************************************************************)
(* Vocabulary of the properties of the tool entry points.                  *)
(***************************************************************************)
ToolCalled == ~Idle

\* the base URL of the call can be resolved: the argument or the setting
Resolvable ==
    IF call.args.base_url # <<>> THEN TRUE ELSE settings.base_url # <<>>

\* the JSON-string arguments of the call as <<name, text>>, in the order
\* the tool parses them
JsonArgsOf(c) ==
    CASE c.tool = "list_entries" ->
             << <<"filters", c.args.filters>> >>
      [] c.tool = "update_entry" ->
             << <<"body", c.args.body>>,
                <<"custom_fields", c.args.custom_fields>> >>
      [] c.tool = "import_custom_fields" ->
             << <<"fields_json", c.args.fields_json>> >>
      [] c.tool = "create_entry" ->
             << <<"extra_fields", c.args.extra_fields>> >>
      [] OTHER -> <<>>

\* the texts of JsonTexts that are JSON by RFC 8259 (NaN is not)
ValidJsonTexts == { TxObj, TxPid, TxStatus, TxList, TxNull }

\* positions of the non-empty JSON-string arguments that are not valid JSON
NotJsonArgs ==
    { i \in 1..Len(JsonArgsOf(call)) :
          /\ JsonArgsOf(call)[i][2] # <<>>
          /\ JsonArgsOf(call)[i][2] \notin ValidJsonTexts }

\* positions of the non-empty JSON-string arguments that json.loads rejects
RejectedArgs ==
    { i \in 1..Len(JsonArgsOf(call)) :
          /\ JsonArgsOf(call)[i][2] # <<>>
          /\ json_loads(JsonArgsOf(call)[i][2]).raised }

InvalidWord == <<"I", "n", "v", "a", "l", "i", "d", " ">>

BaseUrlWord == <<"b", "a", "s", "e", "_", "u", "r", "l">>

(***************************************************************************)
(* C5: every tool call gives back a string, whatever its arguments, the    *)
(* settings and the outcome of the client: no exception leaves the tool.   *)
(* When something raised inside the tool body, the string is "Error: "     *)
(* followed by the message of the exception (for a JSON-string argument    *)
(* that json.loads rejects, "Error: Invalid ...: " and the message).       *)
(***************************************************************************)
C5_ToolsReturnStrings ==
    ToolCalled =>
        /\ output.kind = "str"
        /\ exc # NoExc =>
               /\ StartsWith(output.text, ErrorPrefix)
               /\ EndsWith(output.text, exc.msg)
               /\ exc.type # "JSONDecodeError" =>
                      output.text = ErrorPrefix \o exc.msg

\* the client raised inside fetch_shared_entry and the tool returned the text
C5_Witness ==
    /\ call.tool = "fetch_shared_entry"
    /\ Len(client_calls) = 1
    /\ exc.type = "status_error"
    /\ output = ToolReturn(ErrorPrefix \o MsgOf("status_error"))

(***************************************************************************)
(* C6: every tool uses the base_url argument when it is not empty and      *)
(* otherwise the configured SHARE_API_BASE_URL: each client call it makes  *)
(* gets that URL.  When both are empty the tool returns an error string    *)
(* that names the missing base_url and SHARE_API_BASE_URL, and calls no    *)
(* client method.                                                          *)
(***************************************************************************)
C6_BaseUrlResolved ==
    ToolCalled =>
        LET b == call.args.base_url
            e == settings.base_url
        IN  /\ b # <<>> =>
                   \A i \in 1..Len(client_calls) : client_calls[i].base_url = b
            /\ (b = <<>> /\ e # <<>>) =>
                   \A i \in 1..Len(client_calls) : client_calls[i].base_url = e
            /\ (b = <<>> /\ e = <<>>) =>
                   /\ client_calls = <<>>
                   /\ output.kind = "str"
                   /\ StartsWith(output.text, ErrorPrefix)
                   /\ Contains(output.text, BaseUrlWord)
                   /\ output.text = ErrorPrefix \o NoBaseUrlMsg

\* a tool called with no base_url argument and none configured
C6_Witness ==
    /\ call.tool = "list_fields"
    /\ call.args.base_url = <<>>
    /\ settings.base_url = <<>>
    /\ client_calls = <<>>
    /\ output = ToolReturn(ErrorPrefix \o NoBaseUrlMsg)

\* what does hold: whenever json.loads rejects a non-empty JSON-string
\* argument, the tool returns "Error: Invalid ...: " with the label of the
\* first rejected argument and the decoder's message, and calls no client
\* method
RejectedJsonReported ==
    (ToolCalled /\ Resolvable /\ RejectedArgs # {}) =>
        LET k == CHOOSE i \in RejectedArgs : \A j \in RejectedArgs : i <= j
            a == JsonArgsOf(call)[k]
        IN  /\ output = ToolReturn(ErrorPrefix \o InvalidLabel(a[1])
                                   \o json_loads(a[2]).exc.msg)
            /\ client_calls = <<>>

(***************************************************************************)
(* C7: with a resolvable base URL, whenever a non-empty JSON-string        *)
(* argument of a tool (filters; body, custom_fields; fields_json;          *)
(* extra_fields) is not valid JSON, the tool returns an                    *)
(* "Error: Invalid ..." string and calls no client method.                 *)
(* json.loads takes the text NaN, which is not JSON, and yields a float:   *)
(* the tool goes on with it.                                               *)
(***************************************************************************)
C7_AsClaimed ==
    (ToolCalled /\ Resolvable /\ NotJsonArgs # {}) =>
        /\ output.kind = "str"
        /\ StartsWith(output.text, ErrorPrefix \o InvalidWord)
        /\ client_calls = <<>>


(***************************************************************************)
(* content.md as fetch_entry_with_files leaves it.                         *)
(***************************************************************************)
Returned == pc = "returned"

\* the lines of content.md on disk
ContentMdLines ==
    Split(files[NormPath(PathJoin(entry_dir, ContentMdName))], "\n")

\* a paragraph: a line of text and the empty line after it
IsParagraph(text) ==
    \E k \in 1..(Len(ContentMdLines) - 1) :
        ContentMdLines[k] = text /\ ContentMdLines[k + 1] = <<>>

\* the trimmed values of a body mapping that are not empty
TrimmedValues(body) ==
    { Strip(StrOf(body[k][2])) : k \in 1..Len(body) } \ { <<>> }

IsTextAtt(i) == entry.attachments[i].type = TypeText

\* the texts the entry's own body and its "text" attachments hold
RenderedTexts ==
    TrimmedValues(entry.body)
    \cup UNION { TrimmedValues(entry.attachments[i].body) :
                    i \in { j \in AttPositions : IsTextAtt(j) } }

\* C11 as stated: every attachment the orchestration does not download
\* (not of type "file", or without a filename) has each non-empty value of
\* its body as a paragraph of content.md.
C11_AsClaimed ==
    Returned =>
        \A i \in AttPositions :
            ~IsNamedFileAtt(i) =>
                \A text \in TrimmedValues(entry.attachments[i].body) :
                    IsParagraph(text)

\* C11: every attachment of type "text" has each value of its body that is
\* not empty after trimming as a paragraph of content.md; an attachment the
\* orchestration skips whose type is not "text" adds nothing: a value of its
\* body is a paragraph only when the entry's body or a "text" attachment
\* holds the same text.
C11_TextAttachmentsRendered ==
    Returned =>
        \A i \in AttPositions :
            /\ IsTextAtt(i) =>
                   \A text \in TrimmedValues(entry.attachments[i].body) :
                       IsParagraph(text)
            /\ ~IsNamedFileAtt(i) /\ ~IsTextAtt(i) =>
                   \A text \in TrimmedValues(entry.attachments[i].body) :
                       IsParagraph(text) => text \in RenderedTexts

\* C11 witness: content.md was written for an entry with a "text" attachment
\* and a skipped attachment of another type, both with text in their body
C11_Witness ==
    /\ Returned
    /\ \E i \in AttPositions :
           IsTextAtt(i) /\ TrimmedValues(entry.attachments[i].body) # {}
    /\ \E i \in AttPositions :
           /\ ~IsNamedFileAtt(i) /\ ~IsTextAtt(i)
           /\ TrimmedValues(entry.attachments[i].body) # {}

(***************************************************************************)
(* Vocabulary of the properties of the functions.                          *)
(***************************************************************************)
Applied(fn) == fn_call.fn = fn

\* the values of a body mapping that are not empty once trimmed, trimmed,
\* in mapping order
Paragraphs(body) ==
    SelectSeq([k \in 1..Len(body) |-> Strip(StrOf(body[k][2]))],
              LAMBDA text : text # <<>>)

ImageRefOf(filename) ==
    IF filename # <<>> /\ is_image_file(filename)
    THEN << <<"!", "[">> \o filename \o <<"]", "(">> \o filename \o <<")">> >>
    ELSE <<>>

\* what one attachment contributes
BlockOf(att) ==
    IF att.type = TypeText THEN Paragraphs(att.body)
    ELSE IF att.type = TypeFile THEN ImageRefOf(att.filename)
    ELSE <<>>

\* the heading, then the body, then the entry's image, then the attachments
\* in their order
ItemsOf(e) ==
    << <<"#", " ">> \o e.subject >>
    \o Paragraphs(e.body)
    \o ImageRefOf(e.filename)
    \o Flatten([i \in 1..Len(e.attachments) |-> BlockOf(e.attachments[i])])

\* C12: the markdown of an entry is, in this order and each followed by an
\* empty line: the heading "# subject"; the trimmed non-empty values of the
\* entry's body in mapping order; the image reference of the entry's own
\* filename when it is an image; then for each attachment in the entry's
\* order the trimmed non-empty values of its body (type "text") or its image
\* reference (type "file" with an image filename).  There is no other line.
C12_MarkdownInOrder ==
    Applied("generate_content_markdown") =>
        LET lines == Split(fn_value, "\n")
            items == ItemsOf(fn_call.arg)
        IN  /\ Len(lines) = 2 * Len(items)
            /\ \A k \in 1..Len(items) :
                   lines[2 * k - 1] = items[k] /\ lines[2 * k] = <<>>

\* C12 witness: the function was applied to an entry with an empty and a
\* non-empty body value, an image of its own and two attachments that
\* contribute different lines
C12_Witness ==
    /\ Applied("generate_content_markdown")
    /\ Len(Paragraphs(fn_call.arg.body)) < Len(fn_call.arg.body)
    /\ Paragraphs(fn_call.arg.body) # <<>>
    /\ ImageRefOf(fn_call.arg.filename) # <<>>
    /\ Len(fn_call.arg.attachments) = 2
    /\ BlockOf(fn_call.arg.attachments[1]) # <<>>
    /\ BlockOf(fn_call.arg.attachments[2]) # <<>>
    /\ BlockOf(fn_call.arg.attachments[1]) # BlockOf(fn_call.arg.attachments[2])


\* the same letter, in either case
SameLetter(c, d) ==
    \/ c = d
    \/ \E k \in 1..26 :
           {c, d} = {LowerLetters[k], UpperLetters[k]}

SameIgnoringCase(s, t) ==
    Len(s) = Len(t) /\ \A i \in 1..Len(s) : SameLetter(s[i], t[i])

\* the text from the last dot on; nothing when there is no dot
FinalExtension(filename) ==
    LET dots == { i \in 1..Len(filename) : filename[i] = "." }
    IN  IF dots = {} THEN <<>>
        ELSE SubSeq(filename,
                    CHOOSE i \in dots : \A j \in dots : j <= i,
                    Len(filename))

ListedExtensions ==
    { <<".", "p", "n", "g">>, <<".", "j", "p", "g">>, <<".", "j", "p", "e", "g">>,
      <<".", "g", "i", "f">>, <<".", "b", "m", "p">>, <<".", "w", "e", "b", "p">>,
      <<".", "s", "v", "g">>, <<".", "t", "i", "f", "f">>, <<".", "i", "c", "o">> }

\* the file names of the entry itself and of its "file" attachments
FileNamesOf(e) ==
    {e.filename}
    \cup { e.attachments[i].filename :
              i \in { j \in 1..Len(e.attachments) :
                        e.attachments[j].type = TypeFile } }

\* C13: a file name is an image exactly when the text from its last dot on
\* is, letter case apart, one of .png .jpg .jpeg .gif .bmp .webp .svg .tiff
\* .ico; a name without a dot, the empty name included, is not an image; and
\* the name of an entry-level file or of a "file" attachment that is not an
\* image is in no line of the generated markdown.
C13_ImageByExtension ==
    /\ Applied("is_image_file") =>
           /\ fn_value =
                  (\E ext \in ListedExtensions :
                       SameIgnoringCase(FinalExtension(fn_call.arg), ext))
           /\ (\A i \in 1..Len(fn_call.arg) : fn_call.arg[i] # ".")
                  => fn_value = FALSE
    /\ Applied("generate_content_markdown") =>
           \A filename \in FileNamesOf(fn_call.arg) :
               filename # <<>> /\ ~is_image_file(filename) =>
                   ~Contains(fn_value, filename)

\* C13 witness: a name whose extension is written in mixed case was found
\* to be an image
C13_Witness ==
    /\ Applied("is_image_file")
    /\ fn_value = TRUE
    /\ FinalExtension(fn_call.arg) \notin ListedExtensions


\* some run of consecutive lines holds, one line each and in order, the
\* texts asked of every element of items
ListedInOrder(lines, items, TextsOf(_)) ==
    \E h \in 0..Len(lines) :
        \A k \in 1..Len(items) :
            /\ h + k <= Len(lines)
            /\ \A text \in TextsOf(items[k]) : Contains(lines[h + k], text)

\* C14: the report of format_output has one line for every element of
\* downloaded_files, with its filename, local path and byte count, and one
\* line for every element of failed_downloads, with its id, filename and
\* error text, next to the entry's own id, subject and type: the report
\* drops no success and no failure.
C14_ReportListsAll ==
    Applied("format_output") =>
        LET lines == Split(fn_value, "\n")
            res == fn_call.arg
        IN  /\ ListedInOrder(lines, res.downloaded_files,
                   LAMBDA df : {df.filename, df.file_path,
                                IntToStr(df.file_size)})
            /\ ListedInOrder(lines, res.failed_downloads,
                   LAMBDA fd : {IntToStr(fd.attachment_id), fd.filename,
                                fd.error})
            /\ Contains(lines[1], IntToStr(res.entry.id))
            /\ Contains(lines[1], res.entry.subject)
            /\ Contains(lines[2], res.entry.type)

\* C14 witness: a report of a fetch with two files downloaded and two
\* downloads failed
C14_Witness ==
    /\ Applied("format_output")
    /\ Len(fn_call.arg.downloaded_files) = 2
    /\ Len(fn_call.arg.failed_downloads) = 2
    /\ fn_call.arg.failed_downloads[1] # fn_call.arg.failed_downloads[2]


\* C15 as stated: mapping a JSON response into a record never fails because
\* a field is missing or null, the sequence field attachments included: a
\* fetch whose response is a JSON object with its fields present, missing or
\* null never ends in a failure of the parse.
\* _parse_entry iterates data.get("attachments", []) as it is: the default
\* stands in for a missing key only, and null is not iterable.
C15_AsClaimed == Finished => fetch_outcome # "parse_error"


EntriesPath ==
    <<"/", "a", "p", "i", ".", "p", "h", "p", "/", "e", "n", "t", "r", "i", "e", "s", "/">>
        \o IntToStr(EntryIdArg)

\* a text without the slashes it ends with
WithoutTrailingSlashes(s) ==
    SubSeq(s, 1, CHOOSE n \in 0..Len(s) :
                     /\ \A i \in (n + 1)..Len(s) : s[i] = "/"
                     /\ n > 0 => s[n] # "/")

\* the request URL without the path of the endpoint
BeforeApiPhp == SubSeq(fn_value, 1, Len(fn_value) - Len(EntriesPath))

\* the host of a base URL: from the "://" to the next ":" or "/"
HostOf(base_url) ==
    LET start == (CHOOSE i \in 1..Len(base_url) :
                      /\ SubSeq(base_url, i, i + 2) = <<":", "/", "/">>
                      /\ \A j \in 1..(i - 1) : base_url[j] # ":") + 3
        rest == SubSeq(base_url, start, Len(base_url))
        stop == { i \in 1..Len(rest) : rest[i] \in {":", "/"} }
    IN  IF stop = {} THEN rest
        ELSE SubSeq(rest, 1, (CHOOSE i \in stop : \A j \in stop : i <= j) - 1)

ExampleBaseUrl ==
    <<"h", "t", "t", "p", ":", "/", "/", "e", "x", "a", "m", "p", "l", "e", ".", "c", "o", "m">>
        \o <<"/", "/", "/">>

\* C16: the request URL is the base URL without any of its trailing slashes
\* (rewritten or not), then /api.php/entries/{id}: no slash stands before
\* /api.php; http://example.com/// with id 42 gives
\* http://example.com/api.php/entries/42.
C16_TrailingSlashesStripped ==
    Applied("EntryUrl") =>
        /\ EndsWith(fn_value, EntriesPath)
        /\ BeforeApiPhp # <<>> => BeforeApiPhp[Len(BeforeApiPhp)] # "/"
        /\ Len(BeforeApiPhp) = Len(WithoutTrailingSlashes(fn_call.arg))
        /\ ~Contains(fn_call.arg, <<"l", "o", "c", "a", "l", "h", "o", "s", "t">>)
               => BeforeApiPhp = WithoutTrailingSlashes(fn_call.arg)
        /\ fn_call.arg = ExampleBaseUrl
               => fn_value = <<"h", "t", "t", "p", ":", "/", "/", "e", "x", "a", "m", "p", "l", "e", ".", "c", "o", "m">>
                                 \o EntriesPath

\* C16 witness: the URL of entry 42 was built from http://example.com///
C16_Witness == Applied("EntryUrl") /\ fn_call.arg = ExampleBaseUrl


Localhost == <<"l", "o", "c", "a", "l", "h", "o", "s", "t">>

\* C17 as stated: a base URL whose host is localhost is requested at
\* 127.0.0.1 with its scheme, port and path unchanged, and a base URL whose
\* host is not localhost is requested as it is, its trailing slashes apart.
\* str.replace("://localhost", "://127.0.0.1") looks at no host: it rewrites
\* the first nine letters of the host localhost.example.com too.
C17_AsClaimed ==
    Applied("EntryUrl") =>
        LET base_url == WithoutTrailingSlashes(fn_call.arg)
            host == HostOf(fn_call.arg)
            k == CHOOSE i \in 1..Len(base_url) :
                     SubSeq(base_url, i, i + 2) = <<":", "/", "/">>
        IN  IF host = Localhost
            THEN BeforeApiPhp =
                     SubSeq(base_url, 1, k + 2)
                     \o <<"1", "2", "7", ".", "0", ".", "0", ".", "1">>
                     \o SubSeq(base_url, k + 3 + Len(Localhost), Len(base_url))
            ELSE BeforeApiPhp = base_url

\* the part of C17 that holds: a base URL whose host is localhost is
\* requested at 127.0.0.1, scheme, port and path unchanged, and a base URL
\* without the text ://localhost is requested as it is
LocalhostRewritten ==
    (/\ Applied("EntryUrl")
     /\ \/ HostOf(fn_call.arg) = Localhost
        \/ ~Contains(fn_call.arg, <<":", "/", "/">> \o Localhost))
        => C17_AsClaimed


\* C18: a request carries HTTP Basic credentials exactly when the settings
\* the client was constructed from hold a user name and a password that
\* are both non-empty, and then it carries these two; this is so for the
\* request of every method of the client, the streamed downloads included.
C18_CredentialsIffBoth ==
    Applied("request") =>
        /\ fn_value.auth.kind = "BasicAuth"
               <=> (fn_call.arg.auth_user # <<>>
                    /\ fn_call.arg.auth_password # <<>>)
        /\ fn_value.auth.kind = "BasicAuth" =>
               /\ fn_value.auth.username = fn_call.arg.auth_user
               /\ fn_value.auth.password = fn_call.arg.auth_password
        /\ fn_value.auth.kind \in {"BasicAuth", "None"}

\* C18 witness: a streamed download of a client that was given a user name
\* and no password
C18_Witness ==
    /\ Applied("request")
    /\ fn_value.stream
    /\ fn_call.arg.auth_user # <<>>
    /\ fn_call.arg.auth_password = <<>>


(***************************************************************************)
(* The filters of list_entries.                                            *)
(***************************************************************************)
\* a call of list_entries that came as far as the filters: the base URL
\* resolved and json.loads took the filters, if any
FiltersParsed ==
    /\ call.tool = "list_entries"
    /\ Resolvable
    /\ call.args.filters # <<>> => ~json_loads(call.args.filters).raised

\* the filters as parsed: None when the argument is empty
ParsedFilters ==
    IF call.args.filters = <<>> THEN JNull
    ELSE json_loads(call.args.filters).value

\* the caller gave filters with the key project_id
CallerHasProjectId ==
    ParsedFilters.t = "obj" /\ HasKey(ParsedFilters, "project_id")

\* the caller gave no filters, or filters without the key project_id
CallerHasNoProjectId ==
    \/ ParsedFilters.t = "null"
    \/ ParsedFilters.t = "obj" /\ ~HasKey(ParsedFilters, "project_id")

\* the caller's filters and project_id set to the configured identifier
WithConfiguredProject ==
    JObj(Append(IF ParsedFilters.t = "null" THEN <<>> ELSE ParsedFilters.v,
                <<"project_id", JInt(StrToInt(settings.project_id))>>))

\* the client was called once, with these filters
PassedToClient(filters) ==
    /\ Len(client_calls) = 1
    /\ client_calls[1].method = "list_entries"
    /\ client_calls[1].args.filters = filters

IsIntegerText(text) ==
    text # <<>> /\ \A i \in 1..Len(text) : \E d \in 0..9 : DigitChar(d) = text[i]

ChunksServed ==
    IF pc = "entry_file" THEN ServedBody(0, entry.id)
    ELSE ServedBody(1, entry.attachments[idx].id)

\* this step is a download that returned a DownloadedFile, and the file at
\* path then holds the chunks in the order sent, the directory of the
\* download exists, and file_size is the sum of the lengths of the chunks
StreamWrittenTo(path) ==
    /\ Ancestors(entry_dir) \subseteq dirs'
    /\ NormPath(path) \in DOMAIN files'
    /\ files'[NormPath(path)] = Flatten(ChunksServed)
    /\ downloaded'[Len(downloaded')].file_size = SumLen(ChunksServed)

\* C20 as stated: a download that returns a DownloadedFile has created the
\* target directory, has written the chunks of the response in their order
\* to {download_dir}/{filename}, and returns the sum of their lengths as
\* file_size.
\* os.path.join(download_dir, filename) drops download_dir when filename is
\* absolute: the chunks of the file named /x are written to /x.
C20_AsClaimed ==
    [][Len(downloaded') = Len(downloaded) + 1 =>
           StreamWrittenTo(entry_dir \o <<Slash>>
                           \o downloaded'[Len(downloaded')].filename)]_vars

\* the part of C20 that holds: the same, for the file at the file_path of
\* the DownloadedFile, which is os.path.join(download_dir, filename)
StreamWrittenToFilePath ==
    [][Len(downloaded') = Len(downloaded) + 1 =>
           /\ StreamWrittenTo(downloaded'[Len(downloaded')].file_path)
           /\ downloaded'[Len(downloaded')].file_path =
                  PathJoin(entry_dir, downloaded'[Len(downloaded')].filename)]_vars


(***************************************************************************)
(* Where the downloads of one call write.                                  *)
(***************************************************************************)
\* the path a DownloadedFile was written to
DestinationOf(df) == NormPath(df.file_path)

\* C21 as stated: within one call of fetch_entry_with_files no two downloads
\* write to the same destination path, whatever the attachments are named,
\* so that no download overwrites the file of another.
\* The destination is opened with mode "wb" and is
\* os.path.join(entry_dir, filename): two attachments named a.png are
\* written to the same path, the second over the first.
C21_AsClaimed ==
    \A i, j \in 1..Len(downloaded) :
        i # j => DestinationOf(downloaded[i]) # DestinationOf(downloaded[j])


\* {download_dir}/{entry_id}/ of the call, download_dir made absolute
EntrySubdirectory ==
    AbsPath(IF args.download_dir = NoneArg
            THEN SettingsDownloadDir ELSE args.download_dir)
    \o <<Slash>> \o IntToStr(args.entry_id) \o <<Slash>>

\* C22 as stated: every path fetch_entry_with_files writes, the downloaded
\* files and content.md, lies inside {download_dir}/{entry_id}/, whatever
\* file names the server returns.
\* os.path.join(entry_dir, filename) is filename itself when filename is
\* absolute: the file named /x is written to /x.
C22_AsClaimed ==
    \A path \in DOMAIN files : StartsWith(path, EntrySubdirectory)


(***************************************************************************)
(* The connectivity smoke test.                                            *)
(***************************************************************************)
\* every check of main passes: a base URL, a response to the GET, a body
\* that is JSON and an object
SmokeChecksPass ==
    /\ fn_call.arg.base_url # <<>> \/ fn_call.arg.settings.base_url # <<>>
    /\ fn_call.arg.out.kind = "json"
    /\ fn_call.arg.out.data.t = "obj"

\* C23 as stated: main always ends by returning 0 or 1, 0 exactly when all
\* its checks passed and 1 on any failure, a transport error other than a
\* refused connection or a timeout included; it issues at most one GET, and
\* none without a base URL.
\* main catches ConnectError, HTTPStatusError and TimeoutException only,
\* and takes len() of the "attachments" of the body as it is.
C23_AsClaimed ==
    Applied("main") =>
        /\ fn_value.kind = "return"
        /\ fn_value.code \in {0, 1}
        /\ fn_value.code = 0 <=> SmokeChecksPass
        /\ Len(fn_value.requests) <= 1
        /\ (fn_call.arg.base_url = <<>>
            /\ fn_call.arg.settings.base_url = <<>>)
               => fn_value.requests = <<>>

\* the part of C23 that holds: at most one GET, none without a base URL,
\* and 0 or 1 for what main catches and a body whose "attachments" has a
\* length
SmokeTestReturns ==
    Applied("main") =>
        /\ Len(fn_value.requests) <= 1
        /\ fn_value.kind = "return" =>
               /\ fn_value.code \in {0, 1}
               /\ fn_value.code = 0 <=> SmokeChecksPass
        /\ fn_value.kind = "raise" =>
               \/ fn_call.arg.out.kind = "ReadError"
               \/ /\ SmokeChecksPass
                  /\ Get(fn_call.arg.out.data, "attachments").t = "null"
                  /\ HasKey(fn_call.arg.out.data, "attachments")


(***************************************************************************)
(* The order of the steps of one call.                                     *)
(***************************************************************************)
LastOf(s) == s[Len(s)]

ContentMdPath == NormPath(EntrySubdirectory \o ContentMdName)

\* the positions in a sequence of DownloadedFile of the files named
\* content.md
NamedContentMd(recs) ==
    { k \in 1..Len(recs) : recs[k].filename = ContentMdName }

\* C25: when the call returns, {entry_dir}/content.md holds the generated
\* markdown, whatever was there: a file downloaded under the name content.md
\* held the downloaded chunks until then and holds the markdown afterwards,
\* while the result still lists it in downloaded_files with the number of
\* bytes downloaded.
C25_ContentMdReplacesDownload ==
    /\ pc = "returned" =>
           /\ ContentMdPath \in DOMAIN files
           /\ files[ContentMdPath] =
                  JoinLines(Flatten([k \in 1..Len(ItemsOf(entry)) |->
                                        <<ItemsOf(entry)[k], <<>>>>]))
           /\ result.value.content_md_path = ContentMdPath
           /\ result.value.downloaded_files = downloaded
           /\ \A k \in NamedContentMd(downloaded) :
                  /\ DestinationOf(downloaded[k]) = ContentMdPath
                  /\ downloaded[k].file_size
                         = SumLen(ServedBody(0, entry.id))
                  /\ downloaded[k].file_size > 0
    /\ pc = "attachments" =>
           \A k \in NamedContentMd(downloaded) :
               files[ContentMdPath] = Flatten(ServedBody(0, entry.id))

\* C25 witness: the call returned after the entry-level file content.md
\* was downloaded
C25_Witness == pc = "returned" /\ NamedContentMd(downloaded) # {}


(***************************************************************************)
(* content.md and the outcomes of the downloads.                           *)
(***************************************************************************)
\* the image files of the entry: its own file and its "file" attachments
ImageNames ==
    { filename \in FileNamesOf(entry) :
          filename # <<>> /\ is_image_file(filename) }

\* C26: the content.md a call writes is the markdown of the entry alone,
\* the same whatever the downloads did: it is the markdown of a result with
\* no download records, and it refers to every image file of the entry,
\* also to one whose download failed, that has no file URL, or that was
\* never attempted.
C26_MarkdownOfEntryAlone ==
    pc = "returned" =>
        /\ files[ContentMdPath] =
               generate_content_markdown(EntryResult(entry, <<>>, <<>>))
        /\ \A filename \in ImageNames : IsParagraph(ImageRefOf(filename)[1])

\* C26 witness: content.md was written for an entry with an image
\* attachment whose download failed and an entry-level image without a URL
C26_Witness ==
    /\ pc = "returned"
    /\ entry.filename \in ImageNames /\ entry.file_url = <<>>
    /\ \E k \in 1..Len(failed) : failed[k].filename \in ImageNames
    /\ downloaded = <<>>


(***************************************************************************)
(* What a failed download leaves on disk.                                  *)
(***************************************************************************)
\* the path a download decision wrote to, and the body the server held
PathOf(ev) == NormPath(PathJoin(entry_dir, ev.filename))

BodyOf(ev) == ServedBody(IF ev.src = "entry" THEN 0 ELSE 1, ev.id)

\* the bytes of the chunks that arrived before a stream broke
PartOf(body) == { Flatten(SubSeq(body, 1, k)) : k \in 0..(Len(body) - 1) }

\* C27: a download that fails at os.makedirs or at the status check leaves
\* every file as it was and creates at most the directory; a download
\* whose stream breaks is recorded as a FailedDownload and its destination
\* holds the bytes written before the failure, not removed.
C27_FailedDownloadOnDisk ==
    [][Len(events') > Len(events) =>
          LET ev == LastOf(events')
          IN  /\ ev.kind \in {"http_error", "makedirs_error"} =>
                     /\ files' = files
                     /\ dirs' \in {dirs, dirs \cup Ancestors(entry_dir)}
                     /\ failed' = Append(failed,
                                         FailedDownload(ev.id, ev.filename,
                                                        MsgOf(ev.kind)))
              /\ ev.kind = "stream_error" =>
                     /\ failed' = Append(failed,
                                         FailedDownload(ev.id, ev.filename,
                                                        MsgOf(ev.kind)))
                     /\ downloaded' = downloaded
                     /\ PathOf(ev) \in DOMAIN files'
                     /\ files'[PathOf(ev)] \in PartOf(BodyOf(ev))
                     /\ \A path \in DOMAIN files :
                            path # PathOf(ev) =>
                                path \in DOMAIN files'
                                /\ files'[path] = files[path]]_vars

\* C27 witness: the call has returned; one download broke after its first
\* chunk and that chunk is on disk, another failed its status check and
\* nothing is at its destination
C27_Witness ==
    /\ pc = "returned"
    /\ \E i, j \in 1..Len(events) :
           /\ events[i].kind = "stream_error"
           /\ PathOf(events[i]) \in DOMAIN files
           /\ files[PathOf(events[i])] = BodyOf(events[i])[1]
           /\ events[j].kind = "http_error"
           /\ PathOf(events[j]) \notin DOMAIN files
    /\ Len(failed) = 2


(***************************************************************************)
(* Files that are not downloaded: which of them leave a record.            *)
(***************************************************************************)
\* the entry names a file of its own and gives no URL for it
EntryFileWithoutUrl == entry.filename # <<>> /\ entry.file_url = <<>>

\* "file" attachments with a filename and no URL, and those with no filename
UnavailableAtts == { i \in AttPositions : IsFileAtt(i) /\ HasName(i) /\ ~HasUrl(i) }

NamelessAtts == { i \in AttPositions : IsFileAtt(i) /\ ~HasName(i) }

NamedAtts == { i \in AttPositions : IsFileAtt(i) /\ HasName(i) }

Requested(url) == \E k \in 1..Len(requests) : requests[k] = Get_(url)

NotAvailableRecords ==
    { k \in 1..Len(failed) : failed[k].error = NotAvailableMsg }

\* C28: once the attachments are processed, an entry-level filename without
\* a file URL has caused no request and no record (the records are exactly
\* one per named "file" attachment); every named "file" attachment without
\* a URL has its "File not available on server" record; a "file" attachment
\* with an empty filename has caused no request, and no record has an empty
\* filename.
C28_SkippedSilentlyOrRecorded ==
    PastLoop =>
        /\ EntryFileWithoutUrl =>
               /\ ~Requested(EntryFileUrl(args.base_url, entry.id))
               /\ Len(downloaded) + Len(failed) = Cardinality(NamedAtts)
        /\ Cardinality(NotAvailableRecords) = Cardinality(UnavailableAtts)
        /\ \A i \in UnavailableAtts :
               \E k \in NotAvailableRecords :
                   /\ failed[k].attachment_id = entry.attachments[i].id
                   /\ failed[k].filename = entry.attachments[i].filename
        /\ \A i \in NamelessAtts :
               ~Requested(FileUrl(args.base_url, entry.attachments[i].id))
        /\ \A k \in 1..Len(failed) : failed[k].filename # <<>>
        /\ \A k \in 1..Len(downloaded) : downloaded[k].filename # <<>>

\* C28 witness: the call has returned for an entry with a filename and no
\* URL, a named attachment without URL and a nameless one with a URL
C28_Witness ==
    /\ pc = "returned"
    /\ EntryFileWithoutUrl
    /\ UnavailableAtts # {}
    /\ \E i \in NamelessAtts : HasUrl(i)
    /\ Len(failed) = 1


(***************************************************************************)
(* The order of the records in a result.                                   *)
(***************************************************************************)
\* the candidates in processing order: the entry-level file, then the named
\* "file" attachments as entry.attachments has them
CandidateList ==
    (IF EntryHasBoth THEN EntryCand ELSE <<>>) \o AttCands(IsNamedFileAtt, 1)

\* the ways to find the records of recs among the candidates, going forward
\* only: record k is candidate f[k], and f is strictly increasing
Embeddings(recs) ==
    { f \in [1..Len(recs) -> 1..Len(CandidateList)] :
          /\ \A k \in 1..Len(recs) : Keys(recs)[k] = CandidateList[f[k]]
          /\ \A k \in 1..(Len(recs) - 1) : f[k] < f[k + 1] }

PlacesOf(f) == { f[k] : k \in DOMAIN f }

\* the response numbers its attachments 1, 2, ... in the order it lists
\* them: entry.attachments has them in that order
ServerOrderKept == \A i \in AttPositions : entry.attachments[i].id = i

\* C29: in a returned result downloaded_files and failed_downloads are each
\* an order-preserving subsequence of the candidate list (the entry-level
\* file first, then the attachments in the order of the response), the two
\* together take every candidate once, and entry.attachments is in the
\* server's order.
C29_RecordsInProcessingOrder ==
    pc = "returned" =>
        /\ \E f \in Embeddings(result.value.downloaded_files),
                g \in Embeddings(result.value.failed_downloads) :
               /\ PlacesOf(f) \cap PlacesOf(g) = {}
               /\ PlacesOf(f) \cup PlacesOf(g) = 1..Len(CandidateList)
        /\ ServerOrderKept
        /\ result.value.entry.attachments = entry.attachments

\* C29 witness: a returned result whose failed_downloads has the
\* entry-level file and then two attachments
C29_Witness ==
    /\ pc = "returned"
    /\ EntryHasBoth
    /\ Len(result.value.failed_downloads) = 3
    /\ result.value.failed_downloads[2].attachment_id = 1
    /\ result.value.failed_downloads[3].attachment_id = 2


(***************************************************************************)
(* The query of the client's list_entries.                                 *)
(***************************************************************************)
KeysOf(pairs) == { pairs[i][1] : i \in 1..Len(pairs) }

\* the filters given are a mapping, or None
FiltersAreMapping == fn_call.arg.filters.t \in {"null", "obj"}

NoFilters ==
    \/ fn_call.arg.filters.t = "null"
    \/ fn_call.arg.filters.t = "obj" /\ fn_call.arg.filters.v = <<>>

\* C30: with filters that are a mapping or None, the params of the GET
\* have the keys page and per_page and the keys of the filters, each once;
\* every filter key has the filter's value, also when the key is page or
\* per_page; page and per_page not named by the filters have the values of
\* the arguments; with no filters the params are exactly page and per_page.
C30_QueryIsArgsOverlaidByFilters ==
    (Applied("client.list_entries") /\ FiltersAreMapping) =>
        LET a == fn_call.arg
            given == IF a.filters.t = "obj" THEN a.filters.v ELSE <<>>
            own == << <<"page", JInt(a.page)>>,
                      <<"per_page", JInt(a.per_page)>> >>
        IN  /\ ~fn_value.raised
            /\ KeysOf(fn_value.value) = {"page", "per_page"} \cup KeysOf(given)
            /\ Len(fn_value.value) = Cardinality(KeysOf(fn_value.value))
            /\ \A i \in 1..Len(given) :
                   \E k \in 1..Len(fn_value.value) :
                       fn_value.value[k] = given[i]
            /\ \A i \in 1..2 :
                   own[i][1] \notin KeysOf(given) =>
                       \E k \in 1..Len(fn_value.value) :
                           fn_value.value[k] = own[i]
            /\ NoFilters => fn_value.value = own

\* C30 witness: filters with the keys per_page and page and another key were
\* given, and the params carry the filters' values for all three
C30_Witness ==
    /\ Applied("client.list_entries")
    /\ fn_call.arg.filters.t = "obj"
    /\ KeysOf(fn_call.arg.filters.v) = {"s", "per_page", "page"}
    /\ fn_call.arg.page = 2
    /\ ~fn_value.raised
    /\ GetOr(JObj(fn_value.value), "page", JInt(0)) = JNull
    /\ GetOr(JObj(fn_value.value), "per_page", JInt(0)) = JInt(5)

====
